---- MODULE Spec2Model ----
(***************************************************************************)
(* A model of pptx-parser (crate pptx_to_md): the Run renderer, the Slide  *)
(* aggregate (link_images, convert_to_md) and the PptxContainer            *)
(* (open, load_slide, the streaming iterator, the parallel batch).         *)
(*                                                                         *)
(* Strings are sequences of tokens.  Every character an operation of the   *)
(* program discriminates on (newline, '/', '.', a digit, '|') is a token   *)
(* of its own; a token of several characters stands for a piece of text    *)
(* no operation looks into.                                                *)
(***************************************************************************)
EXTENDS Integers, Sequences, FiniteSets, TLC

VARIABLES
    run,        \* the Run handed to Run::render_as_md
    run_md,     \* the String it returned
    slide,      \* a Slide: rel_path, slide_number, elements, images, image_data, config
    md,         \* what Slide::convert_to_md returned: Option<String>
    spans,      \* for each element convert_to_md rendered: its index in
                \* slide.elements and the part of the output it pushed
    disk,       \* the image output directory: the files in it
    writable,   \* whether that directory can be created and written
    linked,     \* the number of calls of Slide::link_images so far
    slide0,     \* the slide as it was built, before any call
    archive,    \* the entries of the pptx file, in index order: name and data
    container,  \* the PptxContainer: archive, slide_paths, config, slide_count
    iter,       \* the SlideIterator: current_paths, current_index
    yielded,    \* what the calls of next() returned, in call order
    parsed,     \* what parse_all returned
    mt,         \* parse_all_multi_threaded under way
    mt_parsed,  \* what parse_all_multi_threaded returned
    part,       \* a slide part handed to parse_slide_xml
    parsed_xml, \* what parse_slide_xml returned
    call,       \* a call of a function of the crate: its name and arguments
    ret         \* what the call returned

runVars == <<run, run_md>>
slideVars == <<slide, md, spans, disk, writable, linked, slide0>>
parseVars == <<part, parsed_xml>>
callVars == <<call, ret>>
containerVars == <<archive, container, iter, yielded, parsed, mt, mt_parsed>>
vars == <<run, run_md, slide, md, spans, disk, writable, linked, slide0,
          archive, container, iter, yielded, parsed, mt, mt_parsed, part, parsed_xml,
          call, ret>>

\* ------------------------------------------------------------------ bounds

MaxTextLen == 3
MaxElems == 2
MaxItems == 4
MaxLevel == 2
MaxRows == 3
MaxCols == 2
MaxImages == 2
MaxLinkCalls == 2
MaxSlides == 2
MaxNone == 2
MaxShapes == 2
MaxTies == 4
MaxParas == 3
MaxRuns == 3
MaxTargetLen == 7

\* ------------------------------------------------------------------ strings

NL == "\n"

\* The result slot of a call: empty until the call has returned.
NotCalled == [called |-> FALSE, v |-> <<>>]
Returned(v) == [called |-> TRUE, v |-> v]

\* Option<T>
Some(v) == [some |-> TRUE, v |-> v]
None == [some |-> FALSE]

\* All sequences over S of length at most n.
SeqsUpTo(S, n) == UNION {[1..k -> S] : k \in 0..n}

\* str::ends_with(tok) for a one-character token
ends_with(s, tok) == Len(s) > 0 /\ s[Len(s)] = tok

\* str::replace(tok, ""): every occurrence of the token is removed
RECURSIVE remove_all(_, _)
remove_all(s, tok) ==
    IF s = <<>> THEN <<>>
    ELSE (IF Head(s) = tok THEN <<>> ELSE <<Head(s)>>) \o remove_all(Tail(s), tok)

\* Concatenation of a sequence of strings (String::push_str in a loop)
RECURSIVE concat(_)
concat(ss) == IF ss = <<>> THEN <<>> ELSE Head(ss) \o concat(Tail(ss))

\* Number of occurrences of a token
RECURSIVE count_tok(_, _)
count_tok(s, tok) ==
    IF s = <<>> THEN 0
    ELSE (IF Head(s) = tok THEN 1 ELSE 0) + count_tok(Tail(s), tok)

\* ------------------------------------------------------------------ types.rs

Formatting(b, i, u) == [bold |-> b, italic |-> i, underlined |-> u, lang |-> "en-US"]
NoFormatting == [bold |-> FALSE, italic |-> FALSE, underlined |-> FALSE, lang |-> ""]

Run(text, formatting) == [text |-> text, formatting |-> formatting]

\* Run::extract
extract(r) == r.text

\* A mutant of render_as_md: the trailing newline stays inside the wrappers.
render_as_md_nl_inside(r) ==
    LET f == r.formatting
        result0 == extract(r)
        result1 == IF f.bold /\ f.italic THEN <<"***">> \o result0 \o <<"***">>
                   ELSE LET b == IF f.bold THEN <<"**">> \o result0 \o <<"**">> ELSE result0
                        IN  IF f.italic THEN <<"_">> \o b \o <<"_">> ELSE b
    IN  IF f.underlined THEN <<"<u>">> \o result1 \o <<"</u>">> ELSE result1

\* Run::render_as_md
render_as_md(r) ==
    LET f == r.formatting
        has_new_line == ends_with(extract(r), NL)
        result0 == IF has_new_line THEN remove_all(extract(r), NL) ELSE extract(r)
        result1 == IF f.bold /\ f.italic THEN <<"***">> \o result0 \o <<"***">>
                   ELSE LET b == IF f.bold THEN <<"**">> \o result0 \o <<"**">> ELSE result0
                        IN  IF f.italic THEN <<"_">> \o b \o <<"_">> ELSE b
        result2 == IF f.underlined THEN <<"<u>">> \o result1 \o <<"</u>">> ELSE result1
    IN  IF has_new_line THEN result2 \o <<NL>> ELSE result2

\* ElementPosition
Pos(y, x) == [x |-> x, y |-> y]
DefaultPosition == [x |-> 0, y |-> 0]

\* ImageReference
ImageReference(id, target) == [id |-> id, target |-> target]

\* SlideElement and its variants
Text(runs, pos) == [kind |-> "Text", runs |-> runs, pos |-> pos]
Table(rows, pos) == [kind |-> "Table", rows |-> rows, pos |-> pos]
Image(img, pos) == [kind |-> "Image", img |-> img, pos |-> pos]
List(items, pos) == [kind |-> "List", items |-> items, pos |-> pos]
Unknown == [kind |-> "Unknown"]

TableRow(cells) == [cells |-> cells]
TableCell(runs) == [runs |-> runs]
ListItem(level, is_ordered, runs) == [level |-> level, is_ordered |-> is_ordered, runs |-> runs]

\* SlideElement::position
position(e) == IF e.kind = "Unknown" THEN DefaultPosition ELSE e.pos

\* ------------------------------------------------------------------ parser_config.rs

ParserConfig(ex, co, q, mode, out, comment) ==
    [extract_images |-> ex, compress_images |-> co, quality |-> q,
     image_handling_mode |-> mode, image_output_path |-> out,
     include_slide_comment |-> comment]

DefaultQuality == 80

ImageHandlingModes == {"InMarkdown", "Manually", "Save"}

\* ------------------------------------------------------------------ slide.rs

\* Slide::new
Slide(rel_path, slide_number, elements, images, image_data, config) ==
    [rel_path |-> rel_path, slide_number |-> slide_number, elements |-> elements,
     images |-> images, image_data |-> image_data, config |-> config]

\* format!("{}", n) of an unsigned integer
DigitTok == <<"0", "1", "2", "3", "4", "5", "6", "7", "8", "9">>
RECURSIVE Dec(_)
Dec(n) == IF n < 10 THEN <<DigitTok[n + 1]>> ELSE Dec(n \div 10) \o <<DigitTok[(n % 10) + 1]>>

\* s.split(tok).last(): what follows the last occurrence of the token
RECURSIVE split_last(_, _)
split_last(s, tok) ==
    IF s = <<>> \/ s[Len(s)] = tok THEN <<>>
    ELSE split_last(SubSeq(s, 1, Len(s) - 1), tok) \o <<s[Len(s)]>>

\* The base64 codec (general_purpose::STANDARD.encode), on bytes 0..255
B64 == <<"A", "B", "C", "D", "E", "F", "G", "H", "I", "J", "K", "L", "M",
         "N", "O", "P", "Q", "R", "S", "T", "U", "V", "W", "X", "Y", "Z",
         "a", "b", "c", "d", "e", "f", "g", "h", "i", "j", "k", "l", "m",
         "n", "o", "p", "q", "r", "s", "t", "u", "v", "w", "x", "y", "z",
         "0", "1", "2", "3", "4", "5", "6", "7", "8", "9", "+", "/">>
RECURSIVE base64_encode(_)
base64_encode(bytes) ==
    IF bytes = <<>> THEN <<>>
    ELSE LET k == IF Len(bytes) >= 3 THEN 3 ELSE Len(bytes)
             b1 == bytes[1]
             b2 == IF k >= 2 THEN bytes[2] ELSE 0
             b3 == IF k >= 3 THEN bytes[3] ELSE 0
             n == b1 * 65536 + b2 * 256 + b3
         IN  <<B64[(n \div 262144) + 1], B64[((n \div 4096) % 64) + 1],
               IF k >= 2 THEN B64[((n \div 64) % 64) + 1] ELSE "=",
               IF k >= 3 THEN B64[(n % 64) + 1] ELSE "=">>
             \o base64_encode(SubSeq(bytes, k + 1, Len(bytes)))

\* The bitmap transcoder (crate image): load_from_memory accepts the bytes by
\* their signature (137: PNG, 255 216: JPEG); write_to emits a JPEG, which
\* starts with 255 216 and depends on the pixels and on the quality.
image_decodes(bytes) ==
    \/ Len(bytes) >= 1 /\ bytes[1] = 137
    \/ Len(bytes) >= 2 /\ bytes[1] = 255 /\ bytes[2] = 216
image_pixels(bytes) == IF bytes[1] = 137 THEN Tail(bytes) ELSE Tail(Tail(bytes))

\* Slide::compress_image
compress_image(s, image_data) ==
    IF image_decodes(image_data)
    THEN Some(<<255, 216, s.config.quality>> \o image_pixels(image_data))
    ELSE None

\* Path::extension of a path, as Slide::get_image_extension reads it: the part
\* of the last component after its last '.', none when the component has no
\* '.', starts with its only '.', or is "..".
RECURSIVE strip_trailing(_, _)
strip_trailing(s, tok) ==
    IF s # <<>> /\ s[Len(s)] = tok THEN strip_trailing(SubSeq(s, 1, Len(s) - 1), tok) ELSE s
path_extension(path) ==
    LET name == split_last(strip_trailing(path, "/"), "/")
        ext == split_last(name, ".")
    IN  IF count_tok(name, ".") = 0 THEN None
        ELSE IF name = <<".", ".">> THEN None
        ELSE IF Len(name) - Len(ext) = 1 THEN None
        ELSE Some(ext)

\* Slide::get_image_extension
get_image_extension(path) ==
    IF path_extension(path).some THEN path_extension(path).v ELSE <<"bin">>

\* A mutant of key_le: the key is (x, y).
key_le_xy(a, b) == a.x < b.x \/ (a.x = b.x /\ a.y <= b.y)

\* A mutant of key_le: equal keys do not count as in order.
key_le_strict(a, b) == a.y < b.y \/ (a.y = b.y /\ a.x < b.x)

\* The sort key of convert_to_md: (y, x), compared as a tuple
key_le(a, b) == a.y < b.y \/ (a.y = b.y /\ a.x <= b.x)

\* slice::sort_by_key is stable: an element goes after every element already
\* placed whose key is not greater.  The sort is over the indices of elems.
RECURSIVE insert_sorted(_, _, _)
insert_sorted(elems, sorted, i) ==
    IF sorted = <<>> THEN <<i>>
    ELSE IF key_le(position(elems[Head(sorted)]), position(elems[i]))
         THEN <<Head(sorted)>> \o insert_sorted(elems, Tail(sorted), i)
         ELSE <<i>> \o sorted
RECURSIVE sort_by_key(_, _)
sort_by_key(elems, n) ==
    IF n = 0 THEN <<>> ELSE insert_sorted(elems, sort_by_key(elems, n - 1), n)

\* The text of a cell or list item: the runs' raw text
RECURSIVE extract_runs(_)
extract_runs(runs) == IF runs = <<>> THEN <<>> ELSE extract(Head(runs)) \o extract_runs(Tail(runs))

\* The Text arm: every run rendered, then a newline
RECURSIVE render_runs(_)
render_runs(runs) == IF runs = <<>> THEN <<>> ELSE render_as_md(Head(runs)) \o render_runs(Tail(runs))
render_text(e) == render_runs(e.runs) \o <<NL>>

\* row_texts.join(sep)
RECURSIVE join(_, _)
join(ss, sep) ==
    IF ss = <<>> THEN <<>>
    ELSE IF Len(ss) = 1 THEN Head(ss)
    ELSE Head(ss) \o sep \o join(Tail(ss), sep)

\* The Table arm
row_texts(row) == [c \in 1..Len(row.cells) |-> extract_runs(row.cells[c].runs)]
row_line(row) == <<"|", " ">> \o join(row_texts(row), <<" ", "|", " ">>) \o <<" ", "|">>
separator_line(row) ==
    <<"|">> \o join([c \in 1..Len(row.cells) |-> <<" ", "---", " ">>], <<"|">>) \o <<"|">>
\* A mutant of render_rows: is_header is never cleared.
RECURSIVE render_rows_all_headers(_, _)
render_rows_all_headers(rows, is_header) ==
    IF rows = <<>> THEN <<>>
    ELSE row_line(Head(rows)) \o <<NL>>
         \o (IF is_header THEN separator_line(Head(rows)) \o <<NL>> ELSE <<>>)
         \o render_rows_all_headers(Tail(rows), is_header)

RECURSIVE render_rows(_, _)
render_rows(rows, is_header) ==
    IF rows = <<>> THEN <<>>
    ELSE row_line(Head(rows)) \o <<NL>>
         \o (IF is_header THEN separator_line(Head(rows)) \o <<NL>> ELSE <<>>)
         \o render_rows(Tail(rows), FALSE)
render_table(e) == render_rows(e.rows, TRUE) \o <<NL>>

\* The List arm.  counters is the Vec<usize> of per-level counters (level l
\* at index l + 1).
resize(counters, n) == counters \o [k \in 1..(n - Len(counters)) |-> 0]
truncate(counters, n) == IF n < Len(counters) THEN SubSeq(counters, 1, n) ELSE counters
tabs(level) == [k \in 1..level |-> "\t"]

\* A mutant of list_counters: a level entered again keeps its old count.
list_counters_no_reset(counters, previous_level, level) ==
    LET c1 == IF level >= Len(counters) THEN resize(counters, level + 1) ELSE counters
    IN  [c1 EXCEPT ![level + 1] = @ + 1]

\* The counters after the item's level has been entered and counted.
list_counters(counters, previous_level, level) ==
    LET c1 == IF level >= Len(counters) THEN resize(counters, level + 1) ELSE counters
        c2 == IF level > previous_level THEN [c1 EXCEPT ![level + 1] = 0]
              ELSE IF level < previous_level THEN truncate(c1, level + 1)
              ELSE c1
    IN  [c2 EXCEPT ![level + 1] = @ + 1]

list_marker(item, counters) ==
    IF item.is_ordered
    THEN tabs(item.level) \o Dec(counters[item.level + 1]) \o <<".", " ">>
    ELSE tabs(item.level) \o <<"-", " ">>

\* A mutant of render_items: the counter of a level advances on its ordered
\* items only.
RECURSIVE render_items_ordered_rank(_, _, _)
render_items_ordered_rank(items, counters, previous_level) ==
    IF items = <<>> THEN <<>>
    ELSE LET item == Head(items)
             c == list_counters(counters, previous_level, item.level)
             kept == IF item.is_ordered THEN c ELSE [c EXCEPT ![item.level + 1] = @ - 1]
         IN  list_marker(item, c) \o extract_runs(item.runs) \o <<NL>>
             \o render_items_ordered_rank(Tail(items), kept, item.level)

RECURSIVE render_items(_, _, _)
render_items(items, counters, previous_level) ==
    IF items = <<>> THEN <<>>
    ELSE LET item == Head(items)
             c == list_counters(counters, previous_level, item.level)
         IN  list_marker(item, c) \o extract_runs(item.runs) \o <<NL>>
             \o render_items(Tail(items), c, item.level)
render_list(e) == render_items(e.items, <<>>, 0)

\* The running state of convert_to_md: the text so far, the image counter,
\* the files on disk, and whether a `?` has returned None.
push_str(acc, txt) == [acc EXCEPT !.txt = @ \o txt]
return_none(acc) == [acc EXCEPT !.failed = TRUE]

\* A mutant of image_bytes: a transcoding failure falls back to the raw bytes.
image_bytes_fallback(s, raw) ==
    IF s.config.compress_images /\ compress_image(s, raw).some THEN compress_image(s, raw) ELSE Some(raw)

\* What is transcoded or copied for an image
image_bytes(s, raw) == IF s.config.compress_images THEN compress_image(s, raw) ELSE Some(raw)

\* A mutant of render_in_markdown: an image without bytes is an error.
render_in_markdown_strict(s, img, acc) ==
    IF img.id \notin DOMAIN s.image_data THEN return_none(acc)
    ELSE LET data == image_bytes(s, s.image_data[img.id])
             image_name == split_last(img.target, "/")
             file_ext == split_last(image_name, ".")
         IN  IF ~data.some THEN return_none(acc)
             ELSE push_str(acc, <<"![">> \o image_name \o <<"](data:image/">> \o file_ext
                                \o <<";base64,">> \o base64_encode(data.v) \o <<")", NL>>)

\* The InMarkdown arm
render_in_markdown(s, img, acc) ==
    IF img.id \notin DOMAIN s.image_data THEN push_str(acc, <<NL>>)
    ELSE LET data == image_bytes(s, s.image_data[img.id])
             image_name == split_last(img.target, "/")
             file_ext == split_last(image_name, ".")
         IN  IF ~data.some THEN return_none(acc)
             ELSE push_str(acc, <<"![">> \o image_name \o <<"](data:image/">> \o file_ext
                                \o <<";base64,">> \o base64_encode(data.v) \o <<")", NL>>)

\* The directory the images are saved in, made absolute (Path::canonicalize)
output_dir(s) ==
    IF s.config.image_output_path.some THEN s.config.image_output_path.v ELSE <<"/", "cwd">>

\* fs::write: the file is there afterwards when the directory is writable
fs_write(files, can_write, name, data) ==
    IF can_write THEN {f \in files : f.name # name} \cup {[name |-> name, data |-> data]}
    ELSE files

\* The Save arm
render_save(s, img, acc, can_write) ==
    IF img.id \notin DOMAIN s.image_data THEN push_str(acc, <<NL>>)
    ELSE LET data == image_bytes(s, s.image_data[img.id])
             ext == IF s.config.compress_images THEN <<"jpg">> ELSE get_image_extension(img.target)
             file_name == <<"slide">> \o Dec(s.slide_number) \o <<"_image">>
                          \o Dec(acc.image_count + 1) \o <<"_", img.id, ".">> \o ext
             written == fs_write(acc.disk, can_write, file_name, data.v)
             html_link == <<"<a href=", "\"", "file://">> \o output_dir(s) \o <<"/">> \o file_name
                          \o <<"\"", ">">> \o file_name \o <<"</a>">>
         IN  IF ~data.some THEN return_none(acc)
             ELSE IF file_name \notin {f.name : f \in written}
                  THEN return_none([acc EXCEPT !.disk = written])
             ELSE [acc EXCEPT !.disk = written,
                              !.image_count = @ + 1,
                              !.txt = @ \o html_link \o <<NL, NL>>]

\* A mutant of render_image: Manually pushes nothing.
render_image_silent(s, img, acc, can_write) ==
    IF s.config.image_handling_mode = "Manually" THEN acc
    ELSE IF s.config.image_handling_mode = "InMarkdown" THEN render_in_markdown(s, img, acc)
    ELSE render_save(s, img, acc, can_write)

\* The Image arm
render_image(s, img, acc, can_write) ==
    IF s.config.image_handling_mode = "Manually" THEN push_str(acc, <<NL>>)
    ELSE IF s.config.image_handling_mode = "InMarkdown" THEN render_in_markdown(s, img, acc)
    ELSE render_save(s, img, acc, can_write)

\* One turn of the loop over sorted_elements
render_element(s, e, acc, can_write) ==
    IF e.kind = "Text" THEN push_str(acc, render_text(e))
    ELSE IF e.kind = "Table" THEN push_str(acc, render_table(e))
    ELSE IF e.kind = "Image" THEN render_image(s, e.img, acc, can_write)
    ELSE IF e.kind = "List" THEN push_str(acc, render_list(e))
    ELSE acc

\* The loop; each element's part of the text is recorded with its index.
RECURSIVE render_elements(_, _, _, _)
render_elements(s, order, acc, can_write) ==
    IF order = <<>> \/ acc.failed THEN acc
    ELSE LET i == Head(order)
             nxt == render_element(s, s.elements[i], acc, can_write)
             span == [idx |-> i, from |-> Len(acc.txt) + 1, to |-> Len(nxt.txt)]
         IN  render_elements(s, Tail(order),
                             IF nxt.failed THEN nxt ELSE [nxt EXCEPT !.spans = Append(@, span)],
                             can_write)

slide_comment(s) ==
    IF s.config.include_slide_comment
    THEN <<"<!-- Slide ">> \o Dec(s.slide_number) \o <<" -->", NL, NL>>
    ELSE <<>>

\* Slide::convert_to_md, with the state of the output directory it leaves
convert_to_md(s, files, can_write) ==
    render_elements(s, sort_by_key(s.elements, Len(s.elements)),
                    [txt |-> slide_comment(s), image_count |-> 0, spans |-> <<>>,
                     disk |-> files, failed |-> FALSE],
                    can_write)

\* A mutant of id_to_target: the first entry of an id wins.
id_to_target_first(images) ==
    [id \in {images[i].id : i \in 1..Len(images)} |->
        LET first == CHOOSE i \in 1..Len(images) :
                        /\ images[i].id = id
                        /\ \A j \in 1..Len(images) : images[j].id = id => j >= i
        IN  images[first].target]

\* Slide::link_images.  Collecting the (id, target) pairs into a HashMap keeps,
\* for an id that occurs more than once, the target of its last entry.
id_to_target(images) ==
    [id \in {images[i].id : i \in 1..Len(images)} |->
        LET last == CHOOSE i \in 1..Len(images) :
                        /\ images[i].id = id
                        /\ \A j \in 1..Len(images) : images[j].id = id => j <= i
        IN  images[last].target]

\* A mutant of link_element: only an empty target is overwritten.
link_element_if_empty(e, targets) ==
    IF e.kind = "Image" /\ e.img.id \in DOMAIN targets /\ e.img.target = <<>>
    THEN [e EXCEPT !.img.target = targets[e.img.id]]
    ELSE e

\* A mutant of link_element: the resolved target is added to the one held.
link_element_append(e, targets) ==
    IF e.kind = "Image" /\ e.img.id \in DOMAIN targets
    THEN [e EXCEPT !.img.target = @ \o targets[e.img.id]]
    ELSE e

link_element(e, targets) ==
    IF e.kind = "Image" /\ e.img.id \in DOMAIN targets
    THEN [e EXCEPT !.img.target = targets[e.img.id]]
    ELSE e
\* A mutant of link_images: an Image element whose id has no entry in
\* slide.images is dropped.
link_images_resolved_only(s) ==
    [s EXCEPT !.elements =
        SelectSeq([i \in 1..Len(s.elements) |->
                      link_element(s.elements[i], id_to_target(s.images))],
                  LAMBDA e : e.kind = "Image" =>
                      \E k \in 1..Len(s.images) : s.images[k].id = e.img.id)]

link_images(s) ==
    [s EXCEPT !.elements = [i \in 1..Len(s.elements) |->
                               link_element(s.elements[i], id_to_target(s.images))]]

\* ------------------------------------------------------------------ constants.rs

\* The namespaces the parser compares with (their URIs, here by prefix)
P_NAMESPACE == "p"
A_NAMESPACE == "a"
RELS_NAMESPACE == "r"
\* The relationship type of an image
IMAGE_NAMESPACE == "http://schemas.openxmlformats.org/officeDocument/2006/relationships/image"
\* The graphicData uri of a table
TABLE_URI == "http://schemas.openxmlformats.org/drawingml/2006/table"

\* ------------------------------------------------------------------ lib.rs

Ok(v) == [ok |-> TRUE, v |-> v]
Err(e) == [ok |-> FALSE, err |-> e]

\* ------------------------------------------------------------------ the XML tree (roxmltree)

\* An element node, and a text node.  ns "" is no namespace.  attrs maps the
\* attribute names of the node to their values.
Elem(ns, tag, attrs, children) ==
    [elem |-> TRUE, ns |-> ns, tag |-> tag, attrs |-> attrs, children |-> children, text |-> <<>>]
TextNode(text) ==
    [elem |-> FALSE, ns |-> "", tag |-> "", attrs |-> <<>>, children |-> <<>>, text |-> text]
NoAttrs == <<>>

\* Node::attribute
attribute(n, name) == IF name \in DOMAIN n.attrs THEN Some(n.attrs[name]) ELSE None

\* Node::text: the text of the first child, when that is a text node
node_text(n) ==
    IF n.children # <<>> /\ ~n.children[1].elem THEN Some(n.children[1].text) ELSE None

\* Node::descendants: the node and its descendants, in document order
RECURSIVE descendants(_)
descendants(n) ==
    LET sub[k \in 0..Len(n.children)] ==
            IF k = 0 THEN <<>> ELSE sub[k - 1] \o descendants(n.children[k])
    IN  <<n>> \o sub[Len(n.children)]

\* Iterator::find, filter and any over a sequence of nodes
find(nodes, P(_)) ==
    LET hits == {k \in 1..Len(nodes) : P(nodes[k])}
    IN  IF hits = {} THEN None ELSE Some(nodes[CHOOSE k \in hits : \A m \in hits : k <= m])
filter(nodes, P(_)) ==
    LET kept[k \in 0..Len(nodes)] ==
            IF k = 0 THEN <<>>
            ELSE IF P(nodes[k]) THEN Append(kept[k - 1], nodes[k]) ELSE kept[k - 1]
    IN  kept[Len(nodes)]
any(nodes, P(_)) == \E k \in 1..Len(nodes) : P(nodes[k])

is_a(n, tag) == n.elem /\ n.tag = tag /\ n.ns = A_NAMESPACE

\* str::parse::<u32> and ::<i64> on a string of one-character tokens
DigitValue(tok) == CHOOSE d \in 0..9 : DigitTok[d + 1] = tok
RECURSIVE digits_value(_)
digits_value(s) ==
    IF s = <<>> THEN 0 ELSE digits_value(SubSeq(s, 1, Len(s) - 1)) * 10 + DigitValue(s[Len(s)])
all_digits(s) == s # <<>> /\ \A k \in 1..Len(s) : s[k] \in {DigitTok[d] : d \in 1..10}
RECURSIVE strip_zeros(_)
strip_zeros(s) == IF Len(s) > 1 /\ Head(s) = "0" THEN strip_zeros(Tail(s)) ELSE s
\* Whether the number written by the digits s is at most the one written by max
RECURSIVE digits_le(_, _)
digits_le(s, max) ==
    IF Len(s) # Len(max) THEN Len(s) < Len(max)
    ELSE IF s = <<>> THEN TRUE
    ELSE IF Head(s) # Head(max) THEN DigitValue(Head(s)) < DigitValue(Head(max))
    ELSE digits_le(Tail(s), Tail(max))
U32MaxDigits == <<"4", "2", "9", "4", "9", "6", "7", "2", "9", "5">>
I64MaxDigits ==
    <<"9", "2", "2", "3", "3", "7", "2", "0", "3", "6", "8", "5", "4", "7", "7", "5", "8", "0", "7">>
I64MinDigits ==
    <<"9", "2", "2", "3", "3", "7", "2", "0", "3", "6", "8", "5", "4", "7", "7", "5", "8", "0", "8">>
parse_u32(s) ==
    LET body == IF s # <<>> /\ Head(s) = "+" THEN Tail(s) ELSE s
    IN  IF all_digits(body) /\ digits_le(strip_zeros(body), U32MaxDigits)
        THEN Some(digits_value(body)) ELSE None
parse_i64(s) ==
    LET neg == s # <<>> /\ Head(s) = "-"
        body == IF s # <<>> /\ Head(s) \in {"+", "-"} THEN Tail(s) ELSE s
    IN  IF all_digits(body)
           /\ digits_le(strip_zeros(body), IF neg THEN I64MinDigits ELSE I64MaxDigits)
        THEN Some(IF neg THEN 0 - digits_value(body) ELSE digits_value(body)) ELSE None

\* ------------------------------------------------------------------ parse_xml.rs

\* extract_position
extract_position(node) ==
    LET xfrm == find(descendants(node), LAMBDA n : n.ns = A_NAMESPACE /\ n.tag = "xfrm")
        off == find(xfrm.v.children, LAMBDA n : n.tag = "off" /\ n.ns = A_NAMESPACE)
        coord(name) ==
            IF off.some /\ attribute(off.v, name).some
            THEN parse_i64(attribute(off.v, name).v) ELSE None
    IN  IF xfrm.some /\ coord("x").some /\ coord("y").some
        THEN [x |-> coord("x").v, y |-> coord("y").v]
        ELSE DefaultPosition

\* The case-insensitive "true" of parse_run (eq_ignore_ascii_case)
is_true_word(v) ==
    /\ Len(v) = 4
    /\ v[1] \in {"t", "T"} /\ v[2] \in {"r", "R"} /\ v[3] \in {"u", "U"} /\ v[4] \in {"e", "E"}

\* parse_run
parse_run(r_node) ==
    LET r_pr == find(r_node.children, LAMBDA n : is_a(n, "rPr"))
        attr(name) == IF r_pr.some THEN attribute(r_pr.v, name) ELSE None
        flag(name) == attr(name).some /\ (attr(name).v = <<"1">> \/ is_true_word(attr(name).v))
        t_node == find(r_node.children, LAMBDA n : is_a(n, "t"))
    IN  Run(IF t_node.some /\ node_text(t_node.v).some THEN node_text(t_node.v).v ELSE <<>>,
            [bold |-> flag("b"),
             italic |-> flag("i"),
             underlined |-> attr("u").some /\ attr("u").v # <<"none">>,
             lang |-> IF attr("lang").some THEN attr("lang").v ELSE ""])

\* A mutant of parse_paragraph: every run gets the newline.
parse_paragraph_every_run(p_node, add_new_line) ==
    LET run_nodes == filter(p_node.children, LAMBDA n : is_a(n, "r"))
    IN  [idx \in 1..Len(run_nodes) |->
            LET r == parse_run(run_nodes[idx])
            IN  IF add_new_line THEN [r EXCEPT !.text = @ \o <<NL>>] ELSE r]

\* parse_paragraph
parse_paragraph(p_node, add_new_line) ==
    LET run_nodes == filter(p_node.children, LAMBDA n : is_a(n, "r"))
        count == Len(run_nodes)
    IN  [idx \in 1..count |->
            LET r == parse_run(run_nodes[idx])
            IN  IF add_new_line /\ idx = count THEN [r EXCEPT !.text = @ \o <<NL>>] ELSE r]

\* The paragraphs of a text body, each parsed, in order
paragraphs(tx_body_node) == filter(tx_body_node.children, LAMBDA n : is_a(n, "p"))
RECURSIVE paragraph_runs(_, _)
paragraph_runs(p_nodes, add_new_line) ==
    IF p_nodes = <<>> THEN <<>>
    ELSE parse_paragraph(Head(p_nodes), add_new_line) \o paragraph_runs(Tail(p_nodes), add_new_line)

\* parse_text
parse_text(tx_body_node) == [runs |-> paragraph_runs(paragraphs(tx_body_node), TRUE)]

\* A mutant of parse_list_properties: only automatic numbering is ordered.
parse_list_properties_auto_only(p_node) ==
    LET p_pr == find(p_node.children, LAMBDA n : is_a(n, "pPr"))
        lvl == IF p_pr.some THEN attribute(p_pr.v, "lvl") ELSE None
    IN  [level |-> IF lvl.some /\ parse_u32(lvl.v).some THEN parse_u32(lvl.v).v ELSE 0,
         is_ordered |-> p_pr.some /\ any(p_pr.v.children, LAMBDA n : is_a(n, "buAutoNum"))]

\* parse_list_properties
parse_list_properties(p_node) ==
    LET p_pr == find(p_node.children, LAMBDA n : is_a(n, "pPr"))
        lvl == IF p_pr.some THEN attribute(p_pr.v, "lvl") ELSE None
    IN  [level |-> IF lvl.some /\ parse_u32(lvl.v).some THEN parse_u32(lvl.v).v ELSE 0,
         is_ordered |-> /\ p_pr.some
                        /\ \/ any(p_pr.v.children, LAMBDA n : is_a(n, "buAutoNum"))
                           \/ any(p_pr.v.children, LAMBDA n : is_a(n, "buChar"))]

\* parse_list
parse_list(tx_body_node) ==
    LET ps == paragraphs(tx_body_node)
    IN  [items |-> [k \in 1..Len(ps) |->
                      ListItem(parse_list_properties(ps[k]).level,
                               parse_list_properties(ps[k]).is_ordered,
                               parse_paragraph(ps[k], TRUE))]]

\* A mutant of is_list: only a bullet makes a list.
is_list_by_bullet(tx_body_node) ==
    any(descendants(tx_body_node), LAMBDA n :
        /\ is_a(n, "pPr")
        /\ any(n.children, LAMBDA c : c.elem /\ c.tag \in {"buAutoNum", "buChar"}))

\* The list test of parse_sp
is_list(tx_body_node) ==
    any(descendants(tx_body_node), LAMBDA n :
        /\ is_a(n, "pPr")
        /\ \/ attribute(n, "lvl").some
           \/ any(n.children, LAMBDA c : c.elem /\ c.tag \in {"buAutoNum", "buChar"}))

\* parse_sp and the push of its arm in parse_group: the element, with its position
parsed_content(tx_body, pos) ==
    IF ~tx_body.some THEN Err("Unknown")
    ELSE IF is_list(tx_body.v) THEN Ok(<<List(parse_list(tx_body.v).items, pos)>>)
    ELSE Ok(<<Text(parse_text(tx_body.v).runs, pos)>>)
parse_sp(sp_node) ==
    parsed_content(find(sp_node.children, LAMBDA n : n.tag = "txBody" /\ n.ns = P_NAMESPACE),
                   extract_position(sp_node))

\* parse_table_cell, parse_table_row, parse_table
parse_table_cell(tc_node) ==
    LET tx_body == find(tc_node.children, LAMBDA n : is_a(n, "txBody"))
    IN  TableCell(IF tx_body.some THEN paragraph_runs(paragraphs(tx_body.v), FALSE) ELSE <<>>)
parse_table_row(tr_node) ==
    LET tcs == filter(tr_node.children, LAMBDA n : is_a(n, "tc"))
    IN  TableRow([k \in 1..Len(tcs) |-> parse_table_cell(tcs[k])])
parse_table(tbl_node) ==
    LET trs == filter(tbl_node.children, LAMBDA n : is_a(n, "tr"))
    IN  [rows |-> [k \in 1..Len(trs) |-> parse_table_row(trs[k])]]

\* parse_graphic_frame
parse_graphic_frame(node) ==
    LET graphic_data == find(descendants(node), LAMBDA n :
                            is_a(n, "graphicData") /\ attribute(n, "uri") = Some(TABLE_URI))
        tbl == find(graphic_data.v.children, LAMBDA n : is_a(n, "tbl"))
    IN  IF graphic_data.some /\ tbl.some THEN Some(parse_table(tbl.v)) ELSE None

\* parse_pic
parse_pic_lenient(pic_node) ==
    LET blip == find(descendants(pic_node), LAMBDA n : is_a(n, "blip"))
        embed == attribute(blip.v, "r:embed")
    IN  IF ~blip.some THEN Ok(ImageReference(<<>>, <<>>))
        ELSE Ok(ImageReference(IF embed.some THEN embed.v ELSE <<>>, <<>>))
parse_pic(pic_node) ==
    LET blip == find(descendants(pic_node), LAMBDA n : is_a(n, "blip"))
        \* the attribute embed of the relationships namespace; the lookup by
        \* the literal name "r:embed" matches no attribute of a parsed document
        embed == attribute(blip.v, "r:embed")
    IN  IF ~blip.some THEN Err("ImageNotFound")
        ELSE IF ~embed.some THEN Err("ImageNotFound")
        ELSE Ok(ImageReference(embed.v, <<>>))

\* A mutant of extend: the new elements go to the front.
extend_front(acc, r) == IF ~acc.ok THEN acc ELSE IF ~r.ok THEN r ELSE Ok(r.v \o acc.v)

\* elements.extend(r?) and elements.push(r?), on what came before
extend(acc, r) == IF ~acc.ok THEN acc ELSE IF ~r.ok THEN r ELSE Ok(acc.v \o r.v)
push_image(r, pos) == IF r.ok THEN Ok(<<Image(r.v, pos)>>) ELSE r
\* A mutant of push_table: a frame without a table pushes Unknown.
push_table_or_unknown(t, pos) == IF t.some THEN Ok(<<Table(t.v.rows, pos)>>) ELSE Ok(<<Unknown>>)

push_table(t, pos) == IF t.some THEN Ok(<<Table(t.v.rows, pos)>>) ELSE Ok(<<>>)

\* parse_group: Ok(the elements of the node) or the first error
RECURSIVE parse_group(_)
parse_group(node) ==
    LET kids == filter(node.children, LAMBDA n : n.elem)
        walk[k \in 0..Len(kids)] ==
            IF k = 0 THEN Ok(<<>>) ELSE extend(walk[k - 1], parse_group(kids[k]))
    IN  IF node.ns # P_NAMESPACE THEN Ok(<<>>)
        ELSE CASE node.tag = "sp" -> parse_sp(node)
               [] node.tag = "graphicFrame" ->
                      push_table(parse_graphic_frame(node), extract_position(node))
               [] node.tag = "pic" -> push_image(parse_pic(node), extract_position(node))
               [] node.tag = "grpSp" -> walk[Len(kids)]
               [] OTHER -> Ok(<<Unknown>>)

\* A slide part: bytes that are not UTF-8, text that is not XML, or a document
NotUtf8 == [kind |-> "not_utf8"]
NotXml == [kind |-> "not_xml"]
Document(root) == [kind |-> "xml", root |-> root]

\* A mutant of sp_tree_elements: a shape that fails is left out.
sp_tree_elements_skip_failed(sp_tree) ==
    LET kids == filter(sp_tree.v.children, LAMBDA n : n.elem /\ parse_group(n).ok)
        walk[k \in 0..Len(kids)] ==
            IF k = 0 THEN Ok(<<>>) ELSE extend(walk[k - 1], parse_group(kids[k]))
    IN  IF ~sp_tree.some THEN Err("Unknown") ELSE walk[Len(kids)]

\* parse_slide_xml
sp_tree_elements(sp_tree) ==
    LET kids == filter(sp_tree.v.children, LAMBDA n : n.elem)
        walk[k \in 0..Len(kids)] ==
            IF k = 0 THEN Ok(<<>>) ELSE extend(walk[k - 1], parse_group(kids[k]))
    IN  IF ~sp_tree.some THEN Err("Unknown") ELSE walk[Len(kids)]
c_sld_elements(c_sld, ns) ==
    IF ~c_sld.some THEN Err("Unknown")
    ELSE sp_tree_elements(find(c_sld.v.children, LAMBDA n : n.tag = "spTree" /\ n.ns = ns))
parse_slide_xml(xml_data) ==
    IF xml_data.kind = "not_utf8" THEN Err("Unknown")
    ELSE IF xml_data.kind = "not_xml" THEN Err("Xml")
    ELSE c_sld_elements(find(descendants(xml_data.root),
                             LAMBDA n : n.tag = "cSld" /\ n.ns = xml_data.root.ns),
                        xml_data.root.ns)

\* ------------------------------------------------------------------ parse_rels.rs

\* parse_slide_rels
parse_slide_rels(xml_data) ==
    IF xml_data.kind = "not_utf8" THEN Err("Unknown")
    ELSE IF xml_data.kind = "not_xml" THEN Err("Xml")
    ELSE LET rels == filter(xml_data.root.children, LAMBDA n :
                        /\ n.elem /\ n.tag = "Relationship"
                        /\ attribute(n, "Type") = Some(IMAGE_NAMESPACE)
                        /\ attribute(n, "Id").some
                        /\ attribute(n, "Target").some)
         IN  Ok([k \in 1..Len(rels) |->
                    ImageReference(attribute(rels[k], "Id").v, attribute(rels[k], "Target").v)])

\* ------------------------------------------------------------------ slide.rs: extract_slide_number

\* str::starts_with, trim_start_matches and rfind on strings of tokens
starts_with(s, p) == Len(s) >= Len(p) /\ SubSeq(s, 1, Len(p)) = p
RECURSIVE trim_start_matches(_, _)
trim_start_matches(s, p) ==
    IF p # <<>> /\ starts_with(s, p) THEN trim_start_matches(SubSeq(s, Len(p) + 1, Len(s)), p) ELSE s
rfind(s, tok) ==
    LET hits == {k \in 1..Len(s) : s[k] = tok}
    IN  IF hits = {} THEN None ELSE Some(CHOOSE k \in hits : \A m \in hits : m <= k)

\* A mutant of extract_slide_number: what is not a digit is skipped.
extract_slide_number_lossy(path) ==
    LET filename == split_last(path, "/")
    IN  IF Len(filename) >= 2 /\ Head(filename) = "slide" /\ filename[Len(filename)] = ".xml"
        THEN parse_u32(SelectSeq(SubSeq(filename, 2, Len(filename) - 1),
                                 LAMBDA tok : all_digits(<<tok>>)))
        ELSE None

\* Slide::extract_slide_number.  A file name is written with "slide" and ".xml"
\* as tokens of their own where it starts and ends with them.
extract_slide_number(path) ==
    LET filename == split_last(path, "/")
    IN  IF Len(filename) >= 2 /\ Head(filename) = "slide" /\ filename[Len(filename)] = ".xml"
        THEN parse_u32(SubSeq(filename, 2, Len(filename) - 1))
        ELSE None

\* ------------------------------------------------------------------ container.rs

\* The bytes of the tokens a slide path is written with
TokenBytes(tok) ==
    CASE tok = "ppt" -> <<112, 112, 116>>
      [] tok = "/" -> <<47>>
      [] tok = "slides" -> <<115, 108, 105, 100, 101, 115>>
      [] tok = "slide" -> <<115, 108, 105, 100, 101>>
      [] tok = ".xml" -> <<46, 120, 109, 108>>
      [] tok = "x" -> <<120>>
      [] tok = "+" -> <<43>>
      [] tok = "-" -> <<45>>
      [] OTHER -> <<48 + DigitValue(tok)>>
RECURSIVE as_bytes(_)
as_bytes(s) == IF s = <<>> THEN <<>> ELSE TokenBytes(Head(s)) \o as_bytes(Tail(s))

\* Ord for String: the lexicographic order of the bytes
RECURSIVE bytes_le(_, _)
bytes_le(a, b) ==
    IF a = <<>> THEN TRUE
    ELSE IF b = <<>> THEN FALSE
    ELSE IF Head(a) # Head(b) THEN Head(a) < Head(b)
    ELSE bytes_le(Tail(a), Tail(b))
str_le(a, b) == bytes_le(as_bytes(a), as_bytes(b))

\* Vec<String>::sort
RECURSIVE sort(_)
sort(v) ==
    IF v = <<>> THEN <<>>
    ELSE LET rest == sort(SubSeq(v, 1, Len(v) - 1))
             x == v[Len(v)]
             k == Cardinality({i \in 1..Len(rest) : str_le(rest[i], x)})
         IN  SubSeq(rest, 1, k) \o <<x>> \o SubSeq(rest, k + 1, Len(rest))

\* PptxContainer; Closed is no container yet
PptxContainer(files, slide_paths, config, slide_count) ==
    [opened |-> TRUE, archive |-> files, slide_paths |-> slide_paths,
     config |-> config, slide_count |-> slide_count]
Closed ==
    [opened |-> FALSE, archive |-> <<>>, slide_paths |-> <<>>,
     config |-> ParserConfig(TRUE, TRUE, DefaultQuality, "InMarkdown", None, FALSE),
     slide_count |-> 0]

\* PptxContainer::open, on the entries of the file in index order
open(files, config) ==
    LET is_slide(name) ==
            /\ starts_with(name, <<"ppt", "/", "slides", "/", "slide">>)
            /\ ends_with(name, ".xml")
        pushed[i \in 0..Len(files)] ==
            IF i = 0 THEN <<>>
            ELSE IF is_slide(files[i].name) THEN Append(pushed[i - 1], files[i].name)
            ELSE pushed[i - 1]
    IN  PptxContainer(files, sort(pushed[Len(files)]), config, Len(pushed[Len(files)]))

\* PptxContainer::read_file_from_archive
read_file_from_archive(c, path) ==
    LET hits == {k \in 1..Len(c.archive) : c.archive[k].name = path}
    IN  IF hits = {} THEN Err("Zip") ELSE Ok(c.archive[CHOOSE k \in hits : TRUE].data)

\* PptxContainer::get_slide_rels_path
get_slide_rels_path(slide_path) ==
    LET pos == rfind(slide_path, "/")
    IN  (IF pos.some
         THEN SubSeq(slide_path, 1, pos.v) \o <<"_rels", "/">>
              \o SubSeq(slide_path, pos.v + 1, Len(slide_path))
         ELSE slide_path) \o <<".rels">>

\* PptxContainer::get_full_image_path
get_full_image_path(slide_path, target) ==
    IF starts_with(target, <<".", ".", "/">>)
    THEN <<"ppt", "/">> \o trim_start_matches(target, <<".", ".", "/">>)
    ELSE LET pos == rfind(slide_path, "/")
             slide_dir == IF pos.some THEN SubSeq(slide_path, 1, pos.v - 1) ELSE <<>>
         IN  slide_dir \o <<"/">> \o target

\* HashMap::insert and entry(key).or_insert(value)
insert(m, key, value) == [x \in DOMAIN m \cup {key} |-> IF x = key THEN value ELSE m[x]]
or_insert(m, key, value) == IF key \in DOMAIN m THEN m ELSE insert(m, key, value)

\* Option::unwrap_or
unwrap_or(o, default) == IF o.some THEN o.v ELSE default

\* The image loop of load_slide: an image that cannot be read is left out
insert_if_ok(m, key, data) == IF data.ok THEN insert(m, key, data.v) ELSE m
load_image_data(c, slide_path, images) ==
    LET walk[k \in 0..Len(images)] ==
            IF k = 0 THEN <<>>
            ELSE insert_if_ok(walk[k - 1], images[k].id,
                              read_file_from_archive(
                                  c, get_full_image_path(slide_path, images[k].target)))
    IN  walk[Len(images)]

\* The images of a slide: parse_slide_rels on the relationships part when
\* images are extracted and the part could be read
slide_rels(config, rels_data) ==
    IF config.extract_images /\ rels_data.ok THEN parse_slide_rels(rels_data.v) ELSE Ok(<<>>)

\* PptxContainer::load_slide: Result<Option<Slide>>
load_slide_parsed(c, slide_path, elements, images) ==
    IF ~elements.ok THEN elements
    ELSE IF ~images.ok THEN images
    ELSE Ok(Some(link_images(
             Slide(slide_path, unwrap_or(extract_slide_number(slide_path), 0),
                   elements.v, images.v,
                   IF c.config.extract_images
                   THEN load_image_data(c, slide_path, images.v) ELSE <<>>,
                   c.config))))
load_slide_read(c, slide_path, slide_data, rels_data) ==
    IF ~slide_data.ok THEN slide_data
    ELSE load_slide_parsed(c, slide_path, parse_slide_xml(slide_data.v),
                           slide_rels(c.config, rels_data))
load_slide(c, slide_path) ==
    load_slide_read(c, slide_path,
                    read_file_from_archive(c, slide_path),
                    read_file_from_archive(c, get_slide_rels_path(slide_path)))

\* A mutant of push_slide: a slide that fails to load is left out.
push_slide_skip_failed(acc, r) ==
    IF ~acc.ok THEN acc
    ELSE IF r.ok /\ r.v.some THEN Ok(Append(acc.v, r.v.v))
    ELSE acc

\* PptxContainer::parse_all
push_slide(acc, r) ==
    IF ~acc.ok THEN acc
    ELSE IF ~r.ok THEN r
    ELSE IF r.v.some THEN Ok(Append(acc.v, r.v.v))
    ELSE acc
parse_all(c) ==
    LET walk[i \in 0..Len(c.slide_paths)] ==
            IF i = 0 THEN Ok(<<>>)
            ELSE push_slide(walk[i - 1], load_slide(c, c.slide_paths[i]))
    IN  walk[Len(c.slide_paths)]

\* parse_all_multi_threaded, the image loop of the sequential phase: a read
\* that fails returns the error
preload_image(acc, target, data) ==
    IF ~acc.ok THEN acc
    ELSE IF ~data.ok THEN data
    ELSE Ok(or_insert(acc.v, target, data.v))
preload_images(c, slide_path, slide_images, all_image_data) ==
    LET walk[k \in 0..Len(slide_images)] ==
            IF k = 0 THEN Ok(all_image_data)
            ELSE preload_image(walk[k - 1], slide_images[k].target,
                               read_file_from_archive(
                                   c, get_full_image_path(slide_path, slide_images[k].target)))
    IN  walk[Len(slide_images)]

\* parse_all_multi_threaded, the sequential phase: Ok of raw_data and
\* all_image_data, or the first error
preload_push(acc, slide_path, slide_xml, slide_images, all_image_data) ==
    IF ~all_image_data.ok THEN all_image_data
    ELSE Ok([raw_data |-> Append(acc.raw_data,
                                 [path |-> slide_path,
                                  number |-> unwrap_or(extract_slide_number(slide_path), 0),
                                  xml |-> slide_xml, images |-> slide_images]),
             all_image_data |-> all_image_data.v])
preload_rels(c, acc, slide_path, slide_xml, slide_images) ==
    IF ~slide_images.ok THEN slide_images
    ELSE preload_push(acc, slide_path, slide_xml, slide_images.v,
                      preload_images(c, slide_path, slide_images.v, acc.all_image_data))
preload_slide(c, acc, slide_path, slide_xml, rels_data) ==
    IF ~acc.ok THEN acc
    ELSE IF ~slide_xml.ok THEN slide_xml
    ELSE preload_rels(c, acc.v, slide_path, slide_xml.v, slide_rels(c.config, rels_data))
preload(c) ==
    LET walk[i \in 0..Len(c.slide_paths)] ==
            IF i = 0 THEN Ok([raw_data |-> <<>>, all_image_data |-> <<>>])
            ELSE preload_slide(c, walk[i - 1], c.slide_paths[i],
                               read_file_from_archive(c, c.slide_paths[i]),
                               read_file_from_archive(c, get_slide_rels_path(c.slide_paths[i])))
    IN  walk[Len(c.slide_paths)]

\* parse_all_multi_threaded, the closure a worker runs on one entry of raw_data
task_image_map(images, shared_image_data) ==
    LET image_map[k \in 0..Len(images)] ==
            IF k = 0 THEN <<>>
            ELSE IF images[k].target \in DOMAIN shared_image_data
                 THEN insert(image_map[k - 1], images[k].id, shared_image_data[images[k].target])
                 ELSE image_map[k - 1]
    IN  image_map[Len(images)]
task_slide(task, elements, image_map, config) ==
    IF ~elements.ok THEN elements
    ELSE Ok(link_images(Slide(task.path, task.number, elements.v, task.images, image_map, config)))
parse_task(task, shared_image_data, config) ==
    task_slide(task, parse_slide_xml(task.xml),
               IF config.extract_images THEN task_image_map(task.images, shared_image_data)
               ELSE <<>>,
               config)

\* SlideIterator::new
SlideIterator(c) == [active |-> TRUE, current_paths |-> c.slide_paths, current_index |-> 0]
NoIterator == [active |-> FALSE, current_paths |-> <<>>, current_index |-> 0]

\* A mutant of next_item: after a slide that fails to load the iterator is exhausted.
next_item_fused(advanced, r, rest) ==
    IF r.ok /\ r.v.some THEN [it |-> advanced, item |-> Some(Ok(r.v.v))]
    ELSE IF r.ok THEN rest
    ELSE [it |-> [advanced EXCEPT !.current_index = Len(advanced.current_paths)],
          item |-> Some(r)]

\* The match of SlideIterator::next on what load_slide returned; rest is the
\* call of next on itself
next_item(advanced, r, rest) ==
    IF r.ok /\ r.v.some THEN [it |-> advanced, item |-> Some(Ok(r.v.v))]
    ELSE IF r.ok THEN rest
    ELSE [it |-> advanced, item |-> Some(r)]

\* SlideIterator::next: the iterator afterwards and the item returned.  With
\* `left` paths not yet taken, from[left] is the call and from[left - 1] the
\* call on itself.
iterator_next(it, c) ==
    LET n == Len(it.current_paths)
        from[left \in 0..n] ==
            IF left = 0
            THEN [it |-> [it EXCEPT !.current_index = n], item |-> None]
            ELSE next_item([it EXCEPT !.current_index = n - left + 1],
                           load_slide(c, it.current_paths[n - left + 1]),
                           from[left - 1])
    IN  IF it.current_index >= n THEN [it |-> it, item |-> None]
        ELSE from[n - it.current_index]

\* No slide is under work (the specifications that are not about a Slide).
NoSlide ==
    /\ slide = Slide(<<>>, 0, <<>>, <<>>, <<>>, ParserConfig(TRUE, TRUE, DefaultQuality, "InMarkdown", None, FALSE))
    /\ md = [called |-> FALSE, v |-> [some |-> FALSE]]
    /\ spans = <<>>
    /\ disk = {}
    /\ writable = TRUE
    /\ linked = 0
    /\ slide0 = slide

\* No run is under work.
RunIdle ==
    /\ run = Run(<<>>, NoFormatting)
    /\ run_md = NotCalled

\* No container is under work.
NoContainer ==
    /\ archive = <<>>
    /\ container = Closed
    /\ iter = NoIterator
    /\ yielded = <<>>
    /\ parsed = NotCalled
    /\ mt = [phase |-> "idle", raw_data |-> <<>>, shared_image_data |-> <<>>,
             results |-> <<>>, first_error |-> None]
    /\ mt_parsed = NotCalled

\* No slide part is under work.
NoParse ==
    /\ part = NotXml
    /\ parsed_xml = NotCalled

\* No call is under work.
NoCall ==
    /\ call = [fn |-> "none"]
    /\ ret = NotCalled

\* ------------------------------------------------------------------ Run specification

TextTokens == {"a", NL}
Texts == SeqsUpTo(TextTokens, MaxTextLen)
Formattings == {Formatting(b, i, u) : b \in BOOLEAN, i \in BOOLEAN, u \in BOOLEAN}

InitRun ==
    /\ run \in {Run(t, f) : t \in Texts, f \in Formattings}
    /\ run_md = NotCalled
    /\ NoSlide
    /\ NoContainer
    /\ NoParse
    /\ NoCall

\* A caller renders the run.
RenderRun ==
    /\ ~run_md.called
    /\ run_md' = Returned(render_as_md(run))
    /\ UNCHANGED run
    /\ UNCHANGED slideVars
    /\ UNCHANGED containerVars
    /\ UNCHANGED parseVars
    /\ UNCHANGED callVars

NextRun == RenderRun

SpecRun == InitRun /\ [][NextRun]_vars

\* ------------------------------------------------------------------ Slide specifications

\* Image bytes: a PNG, a JPEG, and bytes no decoder accepts
PngBytes == <<137, 80, 1>>
JpegBytes == <<255, 216, 7, 9>>
BrokenBytes == <<0, 1>>

\* Relationship targets
TargetPng == <<".", ".", "/", "media", "/", "image1", ".", "png">>
TargetJpeg == <<"pic", ".", "jpeg">>
NoTarget == <<>>

PlainRun == Run(<<"a", NL>>, NoFormatting)
BoldRun == Run(<<"b">>, Formatting(TRUE, FALSE, FALSE))

SlidePath == <<"ppt", "/", "slides", "/", "slide", "1", "2", ".xml">>
SlideNumber == 12

\* The elements of the slides that are rendered whole
RenderPool ==
    {Text(<<BoldRun, PlainRun>>, Pos(0, 0)),
     Text(<<BoldRun, PlainRun>>, Pos(1, 1)),
     Image(ImageReference("rId1", TargetPng), Pos(-1, 1)),
     Image(ImageReference("rId1", TargetPng), Pos(1, 0)),
     Image(ImageReference("rId2", TargetJpeg), Pos(0, 0)),
     Image(ImageReference("rId2", TargetJpeg), Pos(0, 1)),
     List(<<ListItem(0, TRUE, <<PlainRun>>)>>, Pos(1, 0)),
     Table(<<TableRow(<<TableCell(<<BoldRun>>)>>)>>, Pos(0, 1)),
     Unknown}

ImageDataPool ==
    {<<>>,
     [id \in {"rId1"} |-> PngBytes],
     [id \in {"rId1", "rId2"} |-> IF id = "rId1" THEN BrokenBytes ELSE JpegBytes]}

RenderConfigs ==
    {ParserConfig(TRUE, co, DefaultQuality, mode, out, comment) :
        co \in BOOLEAN, mode \in ImageHandlingModes,
        out \in {Some(<<"/", "out">>)}, comment \in BOOLEAN}

NoResult == [called |-> FALSE, v |-> None]

InitRender ==
    /\ slide \in {Slide(SlidePath, SlideNumber, es, <<>>, data, cfg) :
                    es \in SeqsUpTo(RenderPool, MaxElems),
                    data \in ImageDataPool, cfg \in RenderConfigs}
    /\ md = NoResult
    /\ spans = <<>>
    /\ disk = {}
    /\ writable \in (IF slide.config.image_handling_mode = "Save" THEN BOOLEAN ELSE {TRUE})
    /\ linked = 0
    /\ slide0 = slide
    /\ RunIdle
    /\ NoContainer
    /\ NoParse
    /\ NoCall

\* A caller renders the slide.
ConvertToMd ==
    LET r == convert_to_md(slide, disk, writable)
    IN  /\ md' = Returned(IF r.failed THEN None ELSE Some(r.txt))
        /\ spans' = r.spans
        /\ disk' = r.disk
        /\ UNCHANGED <<slide, writable, linked, slide0>>
        /\ UNCHANGED runVars
        /\ UNCHANGED parseVars
        /\ UNCHANGED callVars
        /\ UNCHANGED containerVars

NextRender == ConvertToMd

SpecRender == InitRender /\ [][NextRender]_vars

\* ------------------------------------------------------------------ List specification

ItemRun == Run(<<"x", NL>>, Formatting(TRUE, FALSE, FALSE))
ItemPool == {ListItem(l, o, <<ItemRun>>) : l \in 0..MaxLevel, o \in BOOLEAN}
PlainConfig == ParserConfig(TRUE, TRUE, DefaultQuality, "InMarkdown", None, FALSE)

\* A slide holding one list
InitList ==
    /\ slide \in {Slide(SlidePath, SlideNumber, <<List(items, DefaultPosition)>>, <<>>, <<>>, PlainConfig) :
                    items \in SeqsUpTo(ItemPool, MaxItems)}
    /\ md = NoResult
    /\ spans = <<>>
    /\ disk = {}
    /\ writable = TRUE
    /\ linked = 0
    /\ slide0 = slide
    /\ RunIdle
    /\ NoContainer
    /\ NoParse
    /\ NoCall

NextList == ConvertToMd

SpecList == InitList /\ [][NextList]_vars

\* ------------------------------------------------------------------ Table specification

EmptyCell == TableCell(<<>>)
FullCell == TableCell(<<BoldRun, Run(<<"|">>, NoFormatting)>>)
RowPool == {TableRow(cells) : cells \in SeqsUpTo({EmptyCell, FullCell}, MaxCols)}

\* A slide holding one table
InitTable ==
    /\ slide \in {Slide(SlidePath, SlideNumber, <<Table(rows, DefaultPosition)>>, <<>>, <<>>, PlainConfig) :
                    rows \in SeqsUpTo(RowPool, MaxRows)}
    /\ md = NoResult
    /\ spans = <<>>
    /\ disk = {}
    /\ writable = TRUE
    /\ linked = 0
    /\ slide0 = slide
    /\ RunIdle
    /\ NoContainer
    /\ NoParse
    /\ NoCall

NextTable == ConvertToMd

SpecTable == InitTable /\ [][NextTable]_vars

\* ------------------------------------------------------------------ Link specification

LinkPool ==
    {Image(ImageReference(id, t), DefaultPosition) :
        id \in {"rId1", "rId2", "rId3"}, t \in {NoTarget, TargetJpeg}}
    \cup {Text(<<PlainRun>>, DefaultPosition), Unknown}
RefPool == {ImageReference(id, t) : id \in {"rId1", "rId2"}, t \in {TargetPng, TargetJpeg}}

\* A slide as load_slide builds it, or as a caller fills its public fields
InitLink ==
    /\ slide \in {Slide(SlidePath, SlideNumber, es, imgs, <<>>, PlainConfig) :
                    es \in SeqsUpTo(LinkPool, MaxElems), imgs \in SeqsUpTo(RefPool, MaxImages)}
    /\ slide0 = slide
    /\ linked = 0
    /\ md = NoResult
    /\ spans = <<>>
    /\ disk = {}
    /\ writable = TRUE
    /\ RunIdle
    /\ NoContainer
    /\ NoParse
    /\ NoCall

\* slide.link_images()
LinkImages ==
    /\ linked < MaxLinkCalls
    /\ slide' = link_images(slide)
    /\ linked' = linked + 1
    /\ UNCHANGED <<slide0, md, spans, disk, writable>>
    /\ UNCHANGED runVars
    /\ UNCHANGED parseVars
    /\ UNCHANGED callVars
    /\ UNCHANGED containerVars

NextLink == LinkImages

SpecLink == InitLink /\ [][NextLink]_vars

\* ------------------------------------------------------------------ Container specifications

\* The documents of the slide parts
TextShape ==
    Elem(P_NAMESPACE, "sp", NoAttrs,
         <<Elem(P_NAMESPACE, "txBody", NoAttrs,
                <<Elem(A_NAMESPACE, "p", NoAttrs,
                       <<Elem(A_NAMESPACE, "r", NoAttrs,
                              <<Elem(A_NAMESPACE, "t", NoAttrs, <<TextNode(<<"a">>)>>)>>)>>)>>)>>)
PicShape ==
    Elem(P_NAMESPACE, "pic", NoAttrs,
         <<Elem(P_NAMESPACE, "blipFill", NoAttrs,
                <<Elem(A_NAMESPACE, "blip", [a \in {"r:embed"} |-> "rId1"], <<>>)>>)>>)
SlideDoc(shapes) ==
    Document(Elem(P_NAMESPACE, "sld", NoAttrs,
                  <<Elem(P_NAMESPACE, "cSld", NoAttrs,
                         <<Elem(P_NAMESPACE, "spTree", NoAttrs, shapes)>>)>>))
RelsDoc ==
    Document(Elem("", "Relationships", NoAttrs,
                  <<Elem("", "Relationship",
                         [a \in {"Id", "Type", "Target"} |->
                             CASE a = "Id" -> "rId1"
                               [] a = "Type" -> IMAGE_NAMESPACE
                               [] a = "Target" -> TargetPng],
                         <<>>)>>))

\* What an archive holds for one slide: the slide part and its relationships
KitPool ==
    {[xml |-> SlideDoc(<<TextShape>>), rels |-> None],
     [xml |-> SlideDoc(<<PicShape, TextShape>>), rels |-> Some(RelsDoc)],
     [xml |-> NotXml, rels |-> None],
     [xml |-> SlideDoc(<<TextShape>>), rels |-> Some(NotXml)]}

\* The numbers in the slide file names, and the names
StemPool == {<<"1">>, <<"2">>, <<"1", "0">>}
slide_name(stem) == <<"ppt", "/", "slides", "/", "slide">> \o stem \o <<".xml">>
MediaPath == <<"ppt", "/", "media", "/", "image1", ".", "png">>

\* The entries of an archive, in index order
kit_entries(stem, kit) ==
    <<[name |-> slide_name(stem), data |-> kit.xml]>>
    \o (IF kit.rels.some
        THEN <<[name |-> get_slide_rels_path(slide_name(stem)), data |-> kit.rels.v]>>
        ELSE <<>>)
archive_entries(stems, kits, media) ==
    LET upto[k \in 0..Len(stems)] ==
            IF k = 0 THEN <<>> ELSE upto[k - 1] \o kit_entries(stems[k], kits[k])
    IN  upto[Len(stems)] \o (IF media THEN <<[name |-> MediaPath, data |-> PngBytes]>> ELSE <<>>)
StemOrders ==
    {stems \in SeqsUpTo(StemPool, MaxSlides) :
        \A i, j \in 1..Len(stems) : i # j => stems[i] # stems[j]}
\* Archives with a slide part in a directory of its own below ppt/slides: the
\* name passes the filter of open. Both slides name their image pic.jpeg, which
\* for each of them is a file of its own directory.
NestedSlide == <<"ppt", "/", "slides", "/", "slide", "2", "/", "x", ".xml">>
LocalRels ==
    Document(Elem("", "Relationships", NoAttrs,
                  <<Elem("", "Relationship",
                         [a \in {"Id", "Type", "Target"} |->
                             CASE a = "Id" -> "rId1"
                               [] a = "Type" -> IMAGE_NAMESPACE
                               [] a = "Target" -> TargetJpeg],
                         <<>>)>>))
nested_entries(slide_path, data) ==
    <<[name |-> slide_path, data |-> SlideDoc(<<PicShape>>)],
      [name |-> get_slide_rels_path(slide_path), data |-> LocalRels],
      [name |-> get_full_image_path(slide_path, TargetJpeg), data |-> data]>>
NestedArchives ==
    {nested_entries(first, JpegBytes) \o nested_entries(second, data) :
        first \in {slide_name(<<"1">>)}, second \in {NestedSlide},
        data \in {JpegBytes, PngBytes}}
    \cup {nested_entries(second, data) \o nested_entries(first, JpegBytes) :
        first \in {slide_name(<<"1">>)}, second \in {NestedSlide},
        data \in {JpegBytes, PngBytes}}

Archives ==
    UNION {{archive_entries(stems, kits, media) :
               kits \in [1..Len(stems) -> KitPool], media \in BOOLEAN} :
           stems \in StemOrders}
    \cup NestedArchives
ContainerConfigs ==
    {ParserConfig(ex, TRUE, DefaultQuality, "InMarkdown", None, FALSE) : ex \in BOOLEAN}

\* parse_all_multi_threaded between its phases: the staged raw_data, the shared
\* image data, what each worker returned, the first error the collection saw
MtIdle ==
    [phase |-> "idle", raw_data |-> <<>>, shared_image_data |-> <<>>,
     results |-> <<>>, first_error |-> None]

InitContainer ==
    /\ archive \in Archives
    /\ container = Closed
    /\ iter = NoIterator
    /\ yielded = <<>>
    /\ parsed = NotCalled
    /\ mt = MtIdle
    /\ mt_parsed = NotCalled
    /\ NoSlide
    /\ RunIdle
    /\ NoParse
    /\ NoCall

\* PptxContainer::open(path, config)
Open ==
    /\ ~container.opened
    /\ \E config \in ContainerConfigs : container' = open(archive, config)
    /\ UNCHANGED <<archive, iter, yielded, parsed, mt, mt_parsed>>
    /\ UNCHANGED slideVars
    /\ UNCHANGED runVars
    /\ UNCHANGED parseVars
    /\ UNCHANGED callVars

\* container.iter_slides()
IterSlides ==
    /\ container.opened
    /\ ~iter.active
    /\ iter' = SlideIterator(container)
    /\ UNCHANGED <<archive, container, yielded, parsed, mt, mt_parsed>>
    /\ UNCHANGED slideVars
    /\ UNCHANGED runVars
    /\ UNCHANGED parseVars
    /\ UNCHANGED callVars

\* One call of next() on the iterator; the caller keeps the item.
IterNext ==
    /\ iter.active
    /\ Len(yielded) < Len(iter.current_paths) + MaxNone
    /\ LET r == iterator_next(iter, container)
       IN  /\ iter' = r.it
           /\ yielded' = Append(yielded, r.item)
    /\ UNCHANGED <<archive, container, parsed, mt, mt_parsed>>
    /\ UNCHANGED slideVars
    /\ UNCHANGED runVars
    /\ UNCHANGED parseVars
    /\ UNCHANGED callVars

NextStream == Open \/ IterSlides \/ IterNext

SpecStream == InitContainer /\ [][NextStream]_vars

\* container.parse_all()
ParseAll ==
    /\ container.opened
    /\ ~parsed.called
    /\ parsed' = Returned(parse_all(container))
    /\ UNCHANGED <<archive, container, iter, yielded, mt, mt_parsed>>
    /\ UNCHANGED slideVars
    /\ UNCHANGED runVars
    /\ UNCHANGED parseVars
    /\ UNCHANGED callVars

\* container.parse_all_multi_threaded(), the sequential phase: it returns the
\* error of a read or of parse_slide_rels, or hands raw_data to the workers.
MtPreload ==
    /\ container.opened
    /\ mt.phase = "idle"
    /\ LET r == preload(container)
       IN  IF r.ok
           THEN /\ mt' = [phase |-> "staged", raw_data |-> r.v.raw_data,
                          shared_image_data |-> r.v.all_image_data,
                          results |-> [k \in 1..Len(r.v.raw_data) |-> NotCalled],
                          first_error |-> None]
                /\ UNCHANGED mt_parsed
           ELSE /\ mt' = [mt EXCEPT !.phase = "done"]
                /\ mt_parsed' = Returned(r)
    /\ UNCHANGED <<archive, container, iter, yielded, parsed>>
    /\ UNCHANGED slideVars
    /\ UNCHANGED runVars
    /\ UNCHANGED parseVars
    /\ UNCHANGED callVars

\* A mutant of MtWorker: a worker takes the bytes it uses out of the shared
\* table.
MtWorkerTakes ==
    /\ mt.phase = "staged"
    /\ \E k \in 1..Len(mt.raw_data) :
        /\ ~mt.results[k].called
        /\ LET r == parse_task(mt.raw_data[k], mt.shared_image_data, container.config)
               used == {mt.raw_data[k].images[i].target : i \in 1..Len(mt.raw_data[k].images)}
           IN  mt' = [mt EXCEPT !.results[k] = Returned(r),
                                !.shared_image_data =
                                    [t \in DOMAIN mt.shared_image_data \ used |->
                                        mt.shared_image_data[t]],
                                !.first_error = IF ~r.ok /\ ~mt.first_error.some
                                                THEN Some(r.err) ELSE @]
    /\ UNCHANGED <<archive, container, iter, yielded, parsed, mt_parsed>>
    /\ UNCHANGED slideVars
    /\ UNCHANGED runVars
    /\ UNCHANGED parseVars
    /\ UNCHANGED callVars

\* A worker runs the closure on one entry of raw_data, whichever is left.
MtWorker ==
    /\ mt.phase = "staged"
    /\ \E k \in 1..Len(mt.raw_data) :
        /\ ~mt.results[k].called
        /\ LET r == parse_task(mt.raw_data[k], mt.shared_image_data, container.config)
           IN  mt' = [mt EXCEPT !.results[k] = Returned(r),
                                !.first_error = IF ~r.ok /\ ~mt.first_error.some
                                                THEN Some(r.err) ELSE @]
    /\ UNCHANGED <<archive, container, iter, yielded, parsed, mt_parsed>>
    /\ UNCHANGED slideVars
    /\ UNCHANGED runVars
    /\ UNCHANGED parseVars
    /\ UNCHANGED callVars

\* collect(): once every entry is done, or an error has been seen and the
\* entries not yet started are dropped, the call returns.
MtCollect ==
    /\ mt.phase = "staged"
    /\ \/ mt.first_error.some
       \/ \A k \in 1..Len(mt.raw_data) : mt.results[k].called
    /\ mt_parsed' = Returned(IF mt.first_error.some THEN Err(mt.first_error.v)
                             ELSE Ok([k \in 1..Len(mt.raw_data) |-> mt.results[k].v.v]))
    /\ mt' = [mt EXCEPT !.phase = "done"]
    /\ UNCHANGED <<archive, container, iter, yielded, parsed>>
    /\ UNCHANGED slideVars
    /\ UNCHANGED runVars
    /\ UNCHANGED parseVars
    /\ UNCHANGED callVars

NextBatch == Open \/ ParseAll \/ MtPreload \/ MtWorker \/ MtCollect

SpecBatch == InitContainer /\ [][NextBatch]_vars

\* ------------------------------------------------------------------ Parse specification

\* Shapes of a shape tree
Group(children) == Elem(P_NAMESPACE, "grpSp", NoAttrs, children)
Off(x, y) ==
    Elem(A_NAMESPACE, "xfrm", NoAttrs,
         <<Elem(A_NAMESPACE, "off", [a \in {"x", "y"} |-> IF a = "x" THEN x ELSE y], <<>>)>>)
Paragraph(p_pr, text) ==
    Elem(A_NAMESPACE, "p", NoAttrs,
         p_pr \o <<Elem(A_NAMESPACE, "r", NoAttrs,
                        <<Elem(A_NAMESPACE, "t", NoAttrs, <<TextNode(text)>>)>>)>>)
PositionedShape ==
    Elem(P_NAMESPACE, "sp", NoAttrs,
         <<Elem(P_NAMESPACE, "spPr", NoAttrs, <<Off(<<"5">>, <<"-", "7">>)>>),
           Elem(P_NAMESPACE, "txBody", NoAttrs, <<Paragraph(<<>>, <<"b">>)>>)>>)
ListShape ==
    Elem(P_NAMESPACE, "sp", NoAttrs,
         <<Elem(P_NAMESPACE, "txBody", NoAttrs,
                <<Paragraph(<<Elem(A_NAMESPACE, "pPr", [a \in {"lvl"} |-> <<"1">>],
                                   <<Elem(A_NAMESPACE, "buAutoNum", NoAttrs, <<>>)>>)>>,
                            <<"c">>)>>)>>)
PicOf(id, pos) ==
    Elem(P_NAMESPACE, "pic", NoAttrs,
         <<Elem(P_NAMESPACE, "blipFill", NoAttrs,
                <<Elem(A_NAMESPACE, "blip", [a \in {"r:embed"} |-> id], <<>>)>>)>> \o pos)
PicNoBlip ==
    Elem(P_NAMESPACE, "pic", NoAttrs, <<Elem(P_NAMESPACE, "blipFill", NoAttrs, <<>>)>>)
PicNoEmbed ==
    Elem(P_NAMESPACE, "pic", NoAttrs,
         <<Elem(P_NAMESPACE, "blipFill", NoAttrs,
                <<Elem(A_NAMESPACE, "blip", [a \in {"embed"} |-> "rId1"], <<>>)>>)>>)
TableCellNode(text) ==
    Elem(A_NAMESPACE, "tc", NoAttrs,
         <<Elem(A_NAMESPACE, "txBody", NoAttrs, <<Paragraph(<<>>, text)>>)>>)
FrameOf(uri, content) ==
    Elem(P_NAMESPACE, "graphicFrame", NoAttrs,
         <<Elem(A_NAMESPACE, "graphic", NoAttrs,
                <<Elem(A_NAMESPACE, "graphicData", [a \in {"uri"} |-> uri], content)>>)>>)
FrameTable ==
    FrameOf(TABLE_URI,
            <<Elem(A_NAMESPACE, "tbl", NoAttrs,
                   <<Elem(A_NAMESPACE, "tr", NoAttrs, <<TableCellNode(<<"d">>)>>)>>)>>)
FrameNoTbl == FrameOf(TABLE_URI, <<>>)
FrameChart == FrameOf("http://schemas.openxmlformats.org/drawingml/2006/chart", <<>>)
CxnShape == Elem(P_NAMESPACE, "cxnSp", NoAttrs, <<>>)
GrpSpPr == Elem(P_NAMESPACE, "grpSpPr", NoAttrs, <<Off(<<"0">>, <<"0">>)>>)
ForeignShape == Elem("mc", "AlternateContent", NoAttrs, <<TextShape>>)
SpNoBody == Elem(P_NAMESPACE, "sp", NoAttrs, <<>>)
Whitespace == TextNode(<<NL>>)

\* The children of a shape tree are drawn from these
ShapePool ==
    {TextShape, PositionedShape, ListShape, PicShape, PicNoBlip, PicNoEmbed,
     FrameTable, FrameChart, FrameNoTbl, CxnShape, ForeignShape, SpNoBody, Whitespace,
     Group(<<>>),
     Group(<<GrpSpPr, TextShape, Group(<<PicOf("rId2", <<Off(<<"3">>, <<"4">>)>>), CxnShape, Whitespace>>), FrameTable>>),
     Group(<<Group(<<Group(<<PicNoBlip>>), TextShape>>)>>),
     Group(<<FrameChart, Group(<<PicNoEmbed>>)>>),
     Group(<<ForeignShape, Group(<<>>), ListShape>>),
     Group(<<TextShape, Group(<<SpNoBody>>)>>)}

\* Slide parts without a cSld, and without a spTree in it
NoCSld == Document(Elem(P_NAMESPACE, "sld", NoAttrs, <<>>))
NoSpTree ==
    Document(Elem(P_NAMESPACE, "sld", NoAttrs, <<Elem(P_NAMESPACE, "cSld", NoAttrs, <<>>)>>))

\* Slide parts whose cSld or spTree is of another namespace than the root,
\* whose cSld is no child of the root, whose spTree is no child of the cSld,
\* and whose root, cSld and spTree are of no namespace
TreeOf(ns, shapes) == Elem(ns, "cSld", NoAttrs, <<Elem(ns, "spTree", NoAttrs, shapes)>>)
ForeignCSld == Document(Elem(P_NAMESPACE, "sld", NoAttrs, <<TreeOf("x", <<TextShape>>)>>))
ForeignSpTree ==
    Document(Elem(P_NAMESPACE, "sld", NoAttrs,
                  <<Elem(P_NAMESPACE, "cSld", NoAttrs,
                         <<Elem(A_NAMESPACE, "spTree", NoAttrs, <<TextShape>>)>>)>>))
DeepCSld ==
    Document(Elem(P_NAMESPACE, "sld", NoAttrs,
                  <<Elem(P_NAMESPACE, "extLst", NoAttrs, <<TreeOf(P_NAMESPACE, <<PicShape>>)>>)>>))
DeepSpTree ==
    Document(Elem(P_NAMESPACE, "sld", NoAttrs,
                  <<Elem(P_NAMESPACE, "cSld", NoAttrs,
                         <<Elem(P_NAMESPACE, "bg", NoAttrs,
                                <<Elem(P_NAMESPACE, "spTree", NoAttrs, <<TextShape>>)>>)>>)>>))
UnqualifiedRoot == Document(Elem("", "sld", NoAttrs, <<TreeOf("", <<TextShape, CxnShape>>)>>))
OddDocs == {NoCSld, NoSpTree, ForeignCSld, ForeignSpTree, DeepCSld, DeepSpTree, UnqualifiedRoot}

InitParse ==
    /\ part \in {SlideDoc(shapes) : shapes \in SeqsUpTo(ShapePool, MaxShapes)}
                \cup {NotUtf8, NotXml} \cup OddDocs
    /\ parsed_xml = NotCalled
    /\ NoSlide
    /\ RunIdle
    /\ NoContainer
    /\ NoCall

\* parse_slide_xml(&bytes)
ParseSlideXml ==
    /\ ~parsed_xml.called
    /\ parsed_xml' = Returned(parse_slide_xml(part))
    /\ UNCHANGED part
    /\ UNCHANGED slideVars
    /\ UNCHANGED runVars
    /\ UNCHANGED containerVars
    /\ UNCHANGED callVars

NextParse == ParseSlideXml

SpecParse == InitParse /\ [][NextParse]_vars

\* ------------------------------------------------------------------ C1

\* The span of the element at index i of slide.elements (none: not reached)
SpanOf(i) == {sp \in {spans[k] : k \in 1..Len(spans)} : sp.idx = i}
Rendered == {i \in 1..Len(slide.elements) : slide.elements[i].kind # "Unknown"}
Before(p, q) == p.y < q.y \/ (p.y = q.y /\ p.x < q.x)

\* C1: when convert_to_md returns the markdown, every element other than
\* Unknown has pushed a non-empty part of it, and for two such elements with
\* positions (y1,x1) and (y2,x2), y1<y2 or (y1=y2 and x1<x2), the part of the
\* first ends before the part of the second starts, whatever their order in
\* slide.elements.
C1_PositionOrder ==
    (md.called /\ md.v.some) =>
        /\ \A i \in Rendered : \E sp \in SpanOf(i) : sp.from <= sp.to /\ sp.to <= Len(md.v.v)
        /\ \A i, j \in Rendered :
              Before(position(slide.elements[i]), position(slide.elements[j])) =>
                  \A si \in SpanOf(i), sj \in SpanOf(j) : si.to < sj.from

\* A slide whose second element lies above its first was rendered.
C1_Witness ==
    /\ md.called /\ md.v.some
    /\ Len(slide.elements) = 2
    /\ Rendered = {1, 2}
    /\ Before(position(slide.elements[2]), position(slide.elements[1]))

\* ------------------------------------------------------------------ C2

\* An image whose rendering returns None from convert_to_md: its bytes are in
\* image_data and either compression is on and the transcoder rejects them,
\* or the mode is Save and the file could not be written (its path does not
\* resolve).
ImageFails(e) ==
    /\ e.kind = "Image"
    /\ e.img.id \in DOMAIN slide.image_data
    /\ slide.config.image_handling_mode \in {"InMarkdown", "Save"}
    /\ \/ slide.config.compress_images /\ ~image_decodes(slide.image_data[e.img.id])
       \/ slide.config.image_handling_mode = "Save" /\ ~writable

RemoveAt(s, i) == SubSeq(s, 1, i - 1) \o SubSeq(s, i + 1, Len(s))
MissingImages ==
    {i \in 1..Len(slide.elements) :
        /\ slide.elements[i].kind = "Image"
        /\ slide.elements[i].img.id \notin DOMAIN slide.image_data}
ImageMarkup == {"![", "<a href="}

\* C3: an Image element whose id has no bytes in image_data pushes only the
\* newline that ends it (no image markup), and the call returns what it
\* returns for the slide without that element, with that one newline added.
C3_MissingImageData ==
    md.called =>
        \A i \in MissingImages :
            LET without == convert_to_md([slide EXCEPT !.elements = RemoveAt(@, i)], {}, writable)
            IN  /\ md.v.some = ~without.failed
                /\ md.v.some =>
                     \A sp \in SpanOf(i) :
                        /\ SubSeq(md.v.v, sp.from, sp.to) = <<NL>>
                        /\ RemoveAt(md.v.v, sp.from) = without.txt
                /\ md.v.some => SpanOf(i) # {}

\* A slide was rendered in Save mode with an image without bytes ahead of an
\* image that was saved.
C3_Witness ==
    /\ md.called /\ md.v.some
    /\ slide.config.image_handling_mode = "Save"
    /\ Len(slide.elements) = 2
    /\ MissingImages = {1}
    /\ slide.elements[2].kind = "Image"
    /\ \E tok \in ImageMarkup : count_tok(md.v.v, tok) > 0

\* ------------------------------------------------------------------ C4

StartsWith(s, p) == Len(s) >= Len(p) /\ SubSeq(s, 1, Len(p)) = p
Drop(s, n) == SubSeq(s, n + 1, Len(s))
Digits == {DigitTok[k] : k \in 1..10}
RECURSIVE LeadingDigits(_)
LeadingDigits(s) == IF s # <<>> /\ Head(s) \in Digits THEN 1 + LeadingDigits(Tail(s)) ELSE 0

ListItems == slide.elements[1].items

\* The most recent item before i of a shallower level (0: none)
LastShallower(i) ==
    LET S == {k \in 1..(i - 1) : ListItems[k].level < ListItems[i].level}
    IN  IF S = {} THEN 0 ELSE CHOOSE k \in S : \A m \in S : m <= k

\* The items of i's level, i included, after that one
Rank(i) ==
    Cardinality({j \in 1..i : j > LastShallower(i) /\ ListItems[j].level = ListItems[i].level})

\* The list's markup from item k on is txt: each item one tab per level, then
\* "- " or a number and ". ", then its text and a newline.
RECURSIVE ItemLines(_, _)
ItemLines(txt, k) ==
    IF k > Len(ListItems) THEN txt = <<>>
    ELSE LET item == ListItems[k]
             body == extract_runs(item.runs) \o <<NL>>
             t1 == Drop(txt, item.level)
             d == LeadingDigits(t1)
             mark == IF item.is_ordered THEN d + 2 ELSE 2
         IN  /\ StartsWith(txt, [n \in 1..item.level |-> "\t"])
             /\ IF item.is_ordered
                THEN d >= 1 /\ StartsWith(Drop(t1, d), <<".", " ">>)
                ELSE StartsWith(t1, <<"-", " ">>)
             /\ StartsWith(Drop(t1, mark), body)
             /\ ItemLines(Drop(t1, mark + Len(body)), k + 1)

NumberedLine(i) ==
    [n \in 1..ListItems[i].level |-> "\t"] \o Dec(Rank(i)) \o <<".", " ">>
    \o extract_runs(ListItems[i].runs) \o <<NL>>

\* C4: a rendered list is one line per item, each starting with one tab per
\* level and then "- " (unordered) or "{n}. " (ordered); in a list whose items
\* are all ordered, n is the number of items of that level, this one included,
\* since the most recent preceding item of a shallower level.
C4_ListNumbering ==
    (md.called /\ slide.elements[1].kind = "List") =>
        /\ md.v.some
        /\ ItemLines(md.v.v, 1)
        /\ (\A i \in 1..Len(ListItems) : ListItems[i].is_ordered) =>
              md.v.v = concat([i \in 1..Len(ListItems) |-> NumberedLine(i)])

\* The ordered list with levels 0, 1, 1, 0 was rendered.
C4_Witness ==
    /\ md.called
    /\ slide.elements[1].kind = "List"
    /\ Len(ListItems) = 4
    /\ \A i \in 1..4 : ListItems[i].is_ordered /\ ListItems[i].level = <<0, 1, 1, 0>>[i]
    /\ md.v.v = <<"1", ".", " ", "x", NL, NL, "\t", "1", ".", " ", "x", NL, NL,
                  "\t", "2", ".", " ", "x", NL, NL, "2", ".", " ", "x", NL, NL>>

\* ------------------------------------------------------------------ C6

TableRows == slide.elements[1].rows

\* A line of cell values: "|", then each value between spaces and closed by "|"
CellsLine(values) ==
    <<"|">> \o concat([c \in 1..Len(values) |-> <<" ">> \o values[c] \o <<" ", "|">>]) \o <<NL>>
RowValues(r) == [c \in 1..Len(TableRows[r].cells) |-> extract_runs(TableRows[r].cells[c].runs)]

Rectangular ==
    /\ Len(TableRows) >= 1
    /\ Len(TableRows[1].cells) >= 1
    /\ \A r \in 1..Len(TableRows) : Len(TableRows[r].cells) = Len(TableRows[1].cells)

\* C6: a table of R >= 1 rows of C >= 1 cells each renders as R + 1 lines: the
\* first row, a separator of C "---" cells, then the other rows in order, each
\* line with the C values of its row (and one empty line after the table).
C6_TableShape ==
    (md.called /\ slide.elements[1].kind = "Table" /\ Rectangular) =>
        LET R == Len(TableRows)
            C == Len(TableRows[1].cells)
        IN  /\ md.v.some
            /\ md.v.v = CellsLine(RowValues(1))
                        \o CellsLine([c \in 1..C |-> <<"---">>])
                        \o concat([r \in 1..(R - 1) |-> CellsLine(RowValues(r + 1))])
                        \o <<NL>>
            /\ count_tok(md.v.v, NL) = R + 2

\* A table of three rows of two cells was rendered.
C6_Witness ==
    /\ md.called
    /\ slide.elements[1].kind = "Table"
    /\ Rectangular
    /\ Len(TableRows) = 3
    /\ Len(TableRows[1].cells) = 2
    /\ TableRows[2].cells[1] # TableRows[2].cells[2]

\* ------------------------------------------------------------------ C5

\* The emphasis and underline markers a formatting opens and closes with.
OpenMarks(f) ==
    (IF f.underlined THEN <<"<u>">> ELSE <<>>)
    \o (IF f.bold /\ f.italic THEN <<"***">>
        ELSE (IF f.italic THEN <<"_">> ELSE <<>>) \o (IF f.bold THEN <<"**">> ELSE <<>>))
CloseMarks(f) ==
    (IF f.bold /\ f.italic THEN <<"***">>
     ELSE (IF f.bold THEN <<"**">> ELSE <<>>) \o (IF f.italic THEN <<"_">> ELSE <<>>))
    \o (IF f.underlined THEN <<"</u>">> ELSE <<>>)

\* s without its last token
Front(s) == SubSeq(s, 1, Len(s) - 1)

ImageElements == {i \in 1..Len(slide.elements) : slide.elements[i].kind = "Image"}
EntriesOf(id) == {k \in 1..Len(slide.images) : slide.images[k].id = id}

\* C7 as stated: after linking, an Image element has the target of every
\* entry of slide.images with its id, and keeps its target when there is none.
C7_EntryTarget ==
    linked >= 1 =>
        \A i \in ImageElements :
            LET img == slide.elements[i].img
            IN  /\ \A k \in EntriesOf(img.id) : img.target = slide.images[k].target
                /\ EntriesOf(img.id) = {} => img.target = slide0.elements[i].img.target

\* C7, amended: after linking, an Image element whose id occurs in
\* slide.images has the target of the last entry with that id, and an Image
\* element whose id is absent keeps its target.
C7_LastEntryTarget ==
    linked >= 1 =>
        \A i \in ImageElements :
            LET img == slide.elements[i].img
            IN  /\ img.id = slide0.elements[i].img.id
                /\ \A k \in EntriesOf(img.id) :
                      (\A m \in EntriesOf(img.id) : m <= k) => img.target = slide.images[k].target
                /\ EntriesOf(img.id) = {} => img.target = slide0.elements[i].img.target

\* rId2 with an empty target was linked against images = [{rId2, ../media/image1.png}],
\* beside an image whose id is in no entry.
C7_Witness ==
    /\ linked >= 1
    /\ slide.images = <<ImageReference("rId2", TargetPng)>>
    /\ Len(slide.elements) = 2
    /\ slide0.elements[1] = Image(ImageReference("rId2", NoTarget), DefaultPosition)
    /\ slide.elements[1] = Image(ImageReference("rId2", TargetPng), DefaultPosition)
    /\ slide.elements[2] = Image(ImageReference("rId3", TargetJpeg), DefaultPosition)

\* ------------------------------------------------------------------ C8

\* C8: a call of link_images on a slide that was linked before leaves the
\* element list as it is.
C8_LinkIdempotent ==
    [][linked >= 1 => slide'.elements = slide.elements]_vars

\* A slide was linked twice, and the first call had resolved a target.
C8_Witness ==
    /\ linked = 2
    /\ slide.elements # slide0.elements

\* ------------------------------------------------------------------ C9

\* The slides parse_all_multi_threaded returned, when it returned Ok
MtSlides == IF mt_parsed.called /\ mt_parsed.v.ok THEN mt_parsed.v.v ELSE <<>>

\* C9, as the claim states it: the slides parse_all_multi_threaded returns are
\* in ascending order of their slide numbers.
C9_AscendingNumbers ==
    \A i, j \in 1..Len(MtSlides) :
        i < j => MtSlides[i].slide_number < MtSlides[j].slide_number

\* C9, what the workers' order cannot change: the slides returned are those of
\* slide_paths, each at the index of its path, and slide_paths is in the
\* byte order of the path strings.
C9_PathOrder ==
    mt_parsed.called /\ mt_parsed.v.ok =>
        /\ Len(MtSlides) = Len(container.slide_paths)
        /\ \A k \in 1..Len(MtSlides) : MtSlides[k].rel_path = container.slide_paths[k]
        /\ \A i, j \in 1..Len(MtSlides) :
               i < j => str_le(container.slide_paths[i], container.slide_paths[j])

\* The batch returned slide 10 before slide 2.
C9_Witness ==
    /\ Len(MtSlides) = 2
    /\ MtSlides[1].slide_number = 10
    /\ MtSlides[2].slide_number = 2

\* ------------------------------------------------------------------ C10

\* The item of the sequence that stands for what load_slide returned
ItemOf(r) == IF r.ok THEN Some(Ok(r.v.v)) ELSE Some(r)

\* The container whose archive has a slide part that parses at the path, and
\* no relationships part for it
Repaired(c, path) ==
    LET kept == filter(c.archive, LAMBDA f : f.name # get_slide_rels_path(path))
    IN  [c EXCEPT !.archive =
            [k \in 1..Len(kept) |->
                IF kept[k].name = path
                THEN [name |-> path, data |-> SlideDoc(<<TextShape>>)]
                ELSE kept[k]]]

\* C10: the k-th call of next() returns the item of the k-th path of
\* slide_paths, which is what load_slide returns for that path, also when a
\* slide that fails to load is replaced by one that loads; every call after
\* the last path returns None.
C10_StreamItems ==
    iter.active =>
        /\ iter.current_paths = container.slide_paths
        /\ \A k \in 1..Len(yielded) :
            IF k <= Len(container.slide_paths)
            THEN /\ yielded[k] = ItemOf(load_slide(container, container.slide_paths[k]))
                 /\ \A j \in 1..Len(container.slide_paths) :
                        (j # k /\ ~load_slide(container, container.slide_paths[j]).ok) =>
                            yielded[k] = ItemOf(load_slide(
                                             Repaired(container, container.slide_paths[j]),
                                             container.slide_paths[k]))
            ELSE ~yielded[k].some

\* The first slide failed to load, the second was yielded after it, and the
\* call after that returned None.
C10_Witness ==
    /\ iter.active
    /\ Len(container.slide_paths) = 2
    /\ Len(yielded) = 3
    /\ yielded[1].some /\ ~yielded[1].v.ok
    /\ yielded[2].some /\ yielded[2].v.ok
    /\ ~yielded[3].some

\* ------------------------------------------------------------------ C11

\* The slide paths of the container whose slide part is structurally malformed
MalformedPaths(c) ==
    {k \in 1..Len(c.slide_paths) :
        ~parse_slide_xml(read_file_from_archive(c, c.slide_paths[k]).v).ok}

\* C11: when a slide part of the archive is structurally malformed, parse_all
\* and parse_all_multi_threaded return an error and no list of slides.
C11_BatchFails ==
    (container.opened /\ MalformedPaths(container) # {}) =>
        /\ parsed.called => ~parsed.v.ok
        /\ mt_parsed.called => ~mt_parsed.v.ok

\* Both calls returned an error for an archive of two slides, one of which a
\* worker had parsed.
C11_Witness ==
    /\ Len(container.slide_paths) = 2
    /\ Cardinality(MalformedPaths(container)) = 1
    /\ parsed.called /\ ~parsed.v.ok
    /\ mt_parsed.called /\ ~mt_parsed.v.ok
    /\ \E k \in 1..Len(mt.results) : mt.results[k].called /\ mt.results[k].v.ok

\* ------------------------------------------------------------------ C12

\* The images the relationships part of a slide names, when it is read
NamedImages(c, path) ==
    LET rels == slide_rels(c.config, read_file_from_archive(c, get_slide_rels_path(path)))
    IN  IF rels.ok THEN rels.v ELSE <<>>

\* A slide names an image target the archive does not hold
MissingBlob(c) ==
    \E k \in 1..Len(c.slide_paths) :
        \E i \in 1..Len(NamedImages(c, c.slide_paths[k])) :
            ~read_file_from_archive(
                 c, get_full_image_path(c.slide_paths[k],
                                        NamedImages(c, c.slide_paths[k])[i].target)).ok

\* Every slide part and every relationships part of the archive parses
PartsParse(c) ==
    /\ MalformedPaths(c) = {}
    /\ \A k \in 1..Len(c.slide_paths) :
           slide_rels(c.config,
                      read_file_from_archive(c, get_slide_rels_path(c.slide_paths[k]))).ok

\* C12, as the claim states it: a missing image blob fails neither parse_all
\* nor parse_all_multi_threaded.
C12_MissingBlobNeverFails ==
    (container.opened /\ MissingBlob(container) /\ PartsParse(container)) =>
        /\ parsed.called => parsed.v.ok
        /\ mt_parsed.called => mt_parsed.v.ok

\* For an archive whose only defect is a missing image blob, parse_all
\* returned the slides and parse_all_multi_threaded returned the read error.
C12_Witness ==
    /\ container.opened /\ MissingBlob(container) /\ PartsParse(container)
    /\ parsed.called /\ parsed.v.ok
    /\ mt_parsed.called /\ ~mt_parsed.v.ok /\ mt_parsed.v.err = "Zip"

\* ------------------------------------------------------------------ C13

\* The part under work has a shape tree; its children
HasTree == part.kind = "xml" /\ part \notin OddDocs
Shapes == part.root.children[1].children[1].children

\* The shapes a walk of the tree visits, in document order: a group stands for
\* its element children
RECURSIVE Leaves(_)
Leaves(nodes) ==
    IF nodes = <<>> THEN <<>>
    ELSE LET n == Head(nodes)
         IN  (IF ~n.elem THEN <<>>
              ELSE IF n.ns = P_NAMESPACE /\ n.tag = "grpSp" THEN Leaves(n.children)
              ELSE <<n>>) \o Leaves(Tail(nodes))
ShapeLeaves == IF HasTree THEN Leaves(Shapes) ELSE <<>>

IsPic(n) == n.ns = P_NAMESPACE /\ n.tag = "pic"
Blips(n) == SelectSeq(descendants(n), LAMBDA d : d.elem /\ d.ns = A_NAMESPACE /\ d.tag = "blip")
HasEmbed(n) == Blips(n) # <<>> /\ "r:embed" \in DOMAIN Blips(n)[1].attrs
BadPics == {k \in 1..Len(ShapeLeaves) : IsPic(ShapeLeaves[k]) /\ ~HasEmbed(ShapeLeaves[k])}
Fatal == {k \in 1..Len(ShapeLeaves) : ~parse_group(ShapeLeaves[k]).ok}
FirstFatal == CHOOSE k \in Fatal : \A m \in Fatal : k <= m
EmbedIds ==
    LET pics == SelectSeq(ShapeLeaves, IsPic)
    IN  [k \in 1..Len(pics) |-> ImageReference(Blips(pics[k])[1].attrs["r:embed"], <<>>)]
ImagesOf(elements) ==
    LET imgs == SelectSeq(elements, LAMBDA e : e.kind = "Image")
    IN  [k \in 1..Len(imgs) |-> imgs[k].img]

NumberCases ==
    {[stem |-> <<"5">>, n |-> 5],
     [stem |-> <<"0", "5">>, n |-> 5],
     [stem |-> <<"+", "5">>, n |-> 5],
     [stem |-> <<"1", "2">>, n |-> 12],
     [stem |-> <<>>, n |-> 0],
     [stem |-> <<"x">>, n |-> 0],
     [stem |-> <<"-", "1">>, n |-> 0],
     [stem |-> <<"4", "2", "9", "4", "9", "6", "7", "2", "9", "6">>, n |-> 0]}
NumberStems ==
    {stems \in SeqsUpTo({c.stem : c \in NumberCases}, MaxSlides) :
        \A i, j \in 1..Len(stems) : i # j => stems[i] # stems[j]}
NumberKits == {[xml |-> SlideDoc(<<TextShape>>), rels |-> None], [xml |-> NotXml, rels |-> None]}
NumberArchives ==
    UNION {{archive_entries(stems, kits, FALSE) : kits \in [1..Len(stems) -> NumberKits]} :
           stems \in NumberStems}

InitNumber ==
    /\ archive \in NumberArchives
    /\ container = Closed
    /\ iter = NoIterator
    /\ yielded = <<>>
    /\ parsed = NotCalled
    /\ mt = MtIdle
    /\ mt_parsed = NotCalled
    /\ NoSlide
    /\ RunIdle
    /\ NoParse
    /\ NoCall

SpecNumber == InitNumber /\ [][NextStream]_vars

\* ------------------------------------------------------------------ C14

\* The case a slide path is written from, and the part the archive holds for it
CaseOf(path) == CHOOSE c \in NumberCases : slide_name(c.stem) = path
PartAt(path) == (CHOOSE k \in 1..Len(archive) : archive[k].name = path)

\* C14: the slide loaded from ppt/slides/slide<N>.xml has slide_number N; when
\* what stands for N is missing or is not the text of a u32, the slide has
\* slide_number 0, and the load fails only when the slide part does not parse.
C14_SlideNumber ==
    iter.active =>
        \A k \in 1..Len(yielded) :
            k <= Len(container.slide_paths) =>
                /\ yielded[k].some
                /\ yielded[k].v.ok <=> archive[PartAt(container.slide_paths[k])].data # NotXml
                /\ yielded[k].v.ok =>
                       /\ yielded[k].v.v.rel_path = container.slide_paths[k]
                       /\ yielded[k].v.v.slide_number = CaseOf(container.slide_paths[k]).n

\* Two slides were loaded: one named with a number, one with no number at all.
C14_Witness ==
    /\ iter.active
    /\ Len(yielded) >= 2
    /\ container.slide_paths = <<slide_name(<<>>), slide_name(<<"0", "5">>)>>
    /\ yielded[1].v.ok /\ yielded[1].v.v.slide_number = 0
    /\ yielded[2].v.ok /\ yielded[2].v.v.slide_number = 5

\* ------------------------------------------------------------------ C15

\* The Image elements that have bytes in image_data
RenderedImages ==
    {i \in 1..Len(slide.elements) :
        /\ slide.elements[i].kind = "Image"
        /\ slide.elements[i].img.id \in DOMAIN slide.image_data}

\* The extension a data URI names: what stands between "data:image/" and
\* ";base64,"
UriExtension(txt) ==
    LET from == CHOOSE k \in 1..Len(txt) : txt[k] = "](data:image/"
        to == CHOOSE k \in from..Len(txt) :
                  txt[k] = ";base64," /\ \A m \in from..(k - 1) : txt[m] # ";base64,"
    IN  SubSeq(txt, from + 1, to - 1)
TargetExtension(img) == split_last(split_last(img.target, "/"), ".")

\* C15: in InMarkdown mode the data URI of every rendered image names the
\* extension jpg when compress_images is set, and the extension of the
\* image's target when it is not.
C15_DataUriExtension ==
    (md.called /\ md.v.some /\ slide.config.image_handling_mode = "InMarkdown") =>
        \A i \in RenderedImages : \A sp \in SpanOf(i) :
            UriExtension(SubSeq(md.v.v, sp.from, sp.to)) =
                IF slide.config.compress_images THEN <<"jpg">>
                ELSE TargetExtension(slide.elements[i].img)

\* A PNG was transcoded for a slide rendered in InMarkdown mode, and the data
\* URI of the JPEG names the extension of the target, png.
C15_Witness ==
    /\ md.called /\ md.v.some
    /\ slide.config.image_handling_mode = "InMarkdown"
    /\ slide.config.compress_images
    /\ slide.image_data = [id \in {"rId1"} |-> PngBytes]
    /\ \E i \in RenderedImages : \E sp \in SpanOf(i) :
          /\ slide.elements[i].img.target = TargetPng
          /\ UriExtension(SubSeq(md.v.v, sp.from, sp.to)) = <<"png">>
          /\ SubSeq(md.v.v, sp.to - 9, sp.to - 2)
                 = base64_encode(<<255, 216, DefaultQuality>> \o Tail(PngBytes))

\* ------------------------------------------------------------------ C16

WithoutImages ==
    [slide EXCEPT !.elements = SelectSeq(@, LAMBDA e : e.kind # "Image")]

\* The text without the characters at the given places
Strip(txt, places) ==
    LET kept[k \in 0..Len(txt)] ==
            IF k = 0 THEN <<>>
            ELSE IF k \in places THEN kept[k - 1] ELSE Append(kept[k - 1], txt[k])
    IN  kept[Len(txt)]
ImagePlaces == {sp.from : sp \in UNION {SpanOf(i) : i \in ImageElements}}

\* C16 as stated: in Manually mode the output is character for character the
\* output of the slide with all Image elements removed.
C16_NothingAtImage ==
    (md.called /\ slide.config.image_handling_mode = "Manually") =>
        /\ md.v.some
        /\ md.v.v = convert_to_md(WithoutImages, {}, writable).txt

\* C16, amended: in Manually mode an Image element emits one newline and
\* nothing else at its position, with or without bytes for its id; the
\* output without these newlines is character for character the output of
\* the slide with all Image elements removed, and no file is written.
C16_NewlineAtImage ==
    (md.called /\ slide.config.image_handling_mode = "Manually") =>
        /\ md.v.some
        /\ disk = {}
        /\ \A i \in ImageElements :
              /\ Cardinality(SpanOf(i)) = 1
              /\ \A sp \in SpanOf(i) : SubSeq(md.v.v, sp.from, sp.to) = <<NL>>
        /\ Strip(md.v.v, ImagePlaces) = convert_to_md(WithoutImages, {}, writable).txt
        /\ Len(md.v.v) = Len(convert_to_md(WithoutImages, {}, writable).txt)
                            + Cardinality(ImageElements)

\* A slide of a text and an image with bytes was rendered in Manually mode.
C16_Witness ==
    /\ md.called /\ md.v.some
    /\ slide.config.image_handling_mode = "Manually"
    /\ Len(slide.elements) = 2
    /\ Cardinality(ImageElements) = 1
    /\ ImageElements \subseteq RenderedImages
    /\ \E i \in 1..2 : slide.elements[i].kind = "Text"
    /\ md.v.v # convert_to_md(WithoutImages, {}, writable).txt

\* ------------------------------------------------------------------ Ties specification

\* Elements of one position, of every variant that has one, an element of
\* another position, and Unknown (whose position is the default one)
TiePool ==
    {Text(<<BoldRun>>, Pos(1, 1)),
     Text(<<PlainRun>>, Pos(1, 1)),
     List(<<ListItem(0, FALSE, <<BoldRun>>)>>, Pos(1, 1)),
     Table(<<TableRow(<<TableCell(<<PlainRun>>)>>)>>, Pos(1, 1)),
     Image(ImageReference("rId1", TargetPng), Pos(1, 1)),
     Text(<<BoldRun>>, Pos(0, 2)),
     Unknown}
TieConfig == ParserConfig(TRUE, FALSE, DefaultQuality, "Manually", None, FALSE)

InitTies ==
    /\ slide \in {Slide(SlidePath, SlideNumber, es, <<>>, <<>>, TieConfig) :
                    es \in SeqsUpTo(TiePool, MaxTies)}
    /\ md = NoResult
    /\ spans = <<>>
    /\ disk = {}
    /\ writable = TRUE
    /\ linked = 0
    /\ slide0 = slide
    /\ RunIdle
    /\ NoContainer
    /\ NoParse
    /\ NoCall

SpecTies == InitTies /\ [][NextRender]_vars

\* ------------------------------------------------------------------ C17

\* The elements of equal position, and the turn of the loop an element had
Tied(i, j) == position(slide.elements[i]) = position(slide.elements[j])
TurnOf(i) == CHOOSE k \in 1..Len(spans) : spans[k].idx = i

\* C17: elements of equal position are rendered in their order in
\* slide.elements, however many of them are tied: of two tied elements the
\* earlier one has the earlier turn of the loop, and its part of the output
\* ends before the part of the later one starts.
C17_TiesKeepOrder ==
    (md.called /\ md.v.some) =>
        /\ Len(spans) = Len(slide.elements)
        /\ \A i, j \in 1..Len(slide.elements) :
              (i < j /\ Tied(i, j)) =>
                  /\ TurnOf(i) < TurnOf(j)
                  /\ \A si \in SpanOf(i), sj \in SpanOf(j) : si.to < sj.from

\* The last element of slide.elements lies above the others, which are
\* different elements of one position: it was rendered first and the others
\* after it, in their order.
C17_Witness ==
    /\ md.called /\ md.v.some
    /\ Len(slide.elements) = MaxTies
    /\ \A i, j \in 1..(MaxTies - 1) : Tied(i, j) /\ (i # j => slide.elements[i] # slide.elements[j])
    /\ slide.elements[MaxTies] = Text(<<BoldRun>>, Pos(0, 2))
    /\ [k \in 1..Len(spans) |-> spans[k].idx] = <<MaxTies>> \o [k \in 1..(MaxTies - 1) |-> k]

\* ------------------------------------------------------------------ C18

\* What a shape gives when it is the only child of the shape tree
Alone(shape) == parse_slide_xml(SlideDoc(<<shape>>))

\* The sequences of the shapes one after the other, or the first error
Joined(first, rest) ==
    IF ~first.ok THEN first ELSE IF ~rest.ok THEN rest ELSE Ok(first.v \o rest.v)
RECURSIVE Flat(_)
Flat(shapes) ==
    IF shapes = <<>> THEN Ok(<<>>) ELSE Joined(Alone(Head(shapes)), Flat(Tail(shapes)))

IsGroup(n) == n.elem /\ n.ns = P_NAMESPACE /\ n.tag = "grpSp"
ElementChildren(n) == SelectSeq(n.children, LAMBDA c : c.elem)

\* C18: what parse_slide_xml returns is the sequences of the shapes of the
\* tree one after the other in document order, a group shape at any depth
\* standing for its element children; a group alone gives the sequences of
\* its element children one after the other.
C18_GroupsTransparent ==
    (parsed_xml.called /\ HasTree) =>
        /\ parsed_xml.v = Flat(ShapeLeaves)
        /\ \A k \in 1..Len(Shapes) :
              IsGroup(Shapes[k]) => Alone(Shapes[k]) = Flat(ElementChildren(Shapes[k]))

\* A tree of a shape and a group that holds shapes and a group was parsed.
C18_Witness ==
    /\ parsed_xml.called
    /\ HasTree
    /\ Len(Shapes) = 2
    /\ Shapes[1] = PositionedShape
    /\ IsGroup(Shapes[2])
    /\ \E k \in 1..Len(Shapes[2].children) : IsGroup(Shapes[2].children[k])
    /\ parsed_xml.v.ok
    /\ [k \in 1..Len(parsed_xml.v.v) |-> parsed_xml.v.v[k].kind]
           = <<"Text", "Unknown", "Text", "Image", "Unknown", "Table">>

\* ------------------------------------------------------------------ C19

SupportedTags == {"sp", "graphicFrame", "pic", "grpSp"}

\* A frame with a table: a graphicData of the table uri with a tbl child
HoldsTable(n) ==
    \E k \in 1..Len(descendants(n)) :
        LET d == descendants(n)[k]
        IN  /\ d.elem /\ d.ns = A_NAMESPACE /\ d.tag = "graphicData"
            /\ "uri" \in DOMAIN d.attrs /\ d.attrs["uri"] = TABLE_URI
            /\ \E c \in 1..Len(d.children) :
                  d.children[c].elem /\ d.children[c].ns = A_NAMESPACE /\ d.children[c].tag = "tbl"

\* The kinds of the elements a visited shape stands for ("Content": Text or
\* List)
KindsOf(n) ==
    IF n.ns # P_NAMESPACE THEN <<>>
    ELSE IF n.tag = "sp" THEN <<"Content">>
    ELSE IF n.tag = "pic" THEN <<"Image">>
    ELSE IF n.tag = "graphicFrame" THEN (IF HoldsTable(n) THEN <<"Table">> ELSE <<>>)
    ELSE <<"Unknown">>
RECURSIVE AllKinds(_)
AllKinds(leaves) == IF leaves = <<>> THEN <<>> ELSE KindsOf(Head(leaves)) \o AllKinds(Tail(leaves))
KindOf(e) == IF e.kind \in {"Text", "List"} THEN "Content" ELSE e.kind

\* C19: no visited shape of an unsupported tag, and no graphicFrame, fails the
\* parse; when the parse succeeds, every visited shape of the presentation
\* namespace whose tag is not sp, graphicFrame, pic or grpSp stands for
\* exactly one Unknown at its place in document order, and a graphicFrame
\* without a table for no element.
C19_UnknownAtItsPlace ==
    (parsed_xml.called /\ HasTree) =>
        /\ \A k \in Fatal : ShapeLeaves[k].ns = P_NAMESPACE /\ ShapeLeaves[k].tag \in {"sp", "pic"}
        /\ parsed_xml.v.ok <=> Fatal = {}
        /\ parsed_xml.v.ok =>
              [k \in 1..Len(parsed_xml.v.v) |-> KindOf(parsed_xml.v.v[k])] = AllKinds(ShapeLeaves)

\* A frame without a table and a group with two shapes of unsupported tags
\* among shapes of supported ones were parsed.
C19_Witness ==
    /\ parsed_xml.called
    /\ HasTree
    /\ Len(Shapes) = 2
    /\ Shapes[1] \in {FrameChart, FrameNoTbl}
    /\ IsGroup(Shapes[2])
    /\ parsed_xml.v.ok
    /\ [k \in 1..Len(parsed_xml.v.v) |-> parsed_xml.v.v[k].kind]
           = <<"Unknown", "Text", "Image", "Unknown", "Table">>

\* ------------------------------------------------------------------ Shape specification

\* Paragraphs of a text body: without properties, with properties that make
\* no list, with a level, with a bullet of either kind, with no bullet, with
\* no run, and with two runs
PPr(attrs, children) == Elem(A_NAMESPACE, "pPr", attrs, children)
RunNode(text) ==
    Elem(A_NAMESPACE, "r", NoAttrs, <<Elem(A_NAMESPACE, "t", NoAttrs, <<TextNode(text)>>)>>)
ParaPool ==
    {Paragraph(<<>>, <<"a">>),
     Paragraph(<<PPr([a \in {"algn"} |-> "ctr"], <<>>)>>, <<"b">>),
     Paragraph(<<PPr([a \in {"lvl"} |-> <<"1">>], <<>>)>>, <<"c">>),
     Paragraph(<<PPr(NoAttrs, <<Elem(A_NAMESPACE, "buAutoNum", NoAttrs, <<>>)>>)>>, <<"d">>),
     Paragraph(<<PPr([a \in {"lvl"} |-> <<"2">>],
                     <<Elem(A_NAMESPACE, "buChar", NoAttrs, <<>>)>>)>>, <<"e">>),
     Paragraph(<<PPr(NoAttrs, <<Elem(A_NAMESPACE, "buNone", NoAttrs, <<>>)>>)>>, <<"f">>),
     Elem(A_NAMESPACE, "p", NoAttrs, <<Elem(A_NAMESPACE, "endParaRPr", NoAttrs, <<>>)>>),
     Elem(A_NAMESPACE, "p", NoAttrs, <<RunNode(<<"g">>), RunNode(<<"h">>)>>)}
BodyPr == Elem(A_NAMESPACE, "bodyPr", NoAttrs, <<>>)
ShapeOf(paras) ==
    Elem(P_NAMESPACE, "sp", NoAttrs,
         <<Elem(P_NAMESPACE, "txBody", NoAttrs, <<BodyPr>> \o paras)>>)

InitShape ==
    /\ part \in {SlideDoc(<<ShapeOf(paras)>>) : paras \in SeqsUpTo(ParaPool, MaxParas)}
    /\ parsed_xml = NotCalled
    /\ NoSlide
    /\ RunIdle
    /\ NoContainer
    /\ NoCall

SpecShape == InitShape /\ [][NextParse]_vars

\* ------------------------------------------------------------------ C20

\* The paragraphs of the text body of the shape
Paras == Tail(Shapes[1].children[1].children)

\* A paragraph whose properties have a level, or a bullet child
ListLike(p) ==
    \E k \in 1..Len(p.children) :
        /\ p.children[k].elem /\ p.children[k].tag = "pPr"
        /\ \/ "lvl" \in DOMAIN p.children[k].attrs
           \/ \E c \in 1..Len(p.children[k].children) :
                 p.children[k].children[c].tag \in {"buAutoNum", "buChar"}
RECURSIVE AllRuns(_)
AllRuns(paras) ==
    IF paras = <<>> THEN <<>> ELSE parse_paragraph(Head(paras), TRUE) \o AllRuns(Tail(paras))

\* C20: a shape with a paragraph whose properties have a level attribute or
\* a buAutoNum or buChar child gives one List with one ListItem per paragraph
\* of the text body, list-like or not, in paragraph order; a shape without
\* such a paragraph gives one Text with the runs of all its paragraphs in
\* order.
C20_ShapeWideList ==
    parsed_xml.called =>
        /\ parsed_xml.v.ok
        /\ Len(parsed_xml.v.v) = 1
        /\ IF \E k \in 1..Len(Paras) : ListLike(Paras[k])
           THEN /\ parsed_xml.v.v[1].kind = "List"
                /\ Len(parsed_xml.v.v[1].items) = Len(Paras)
                /\ \A k \in 1..Len(Paras) :
                      parsed_xml.v.v[1].items[k].runs = parse_paragraph(Paras[k], TRUE)
           ELSE /\ parsed_xml.v.v[1].kind = "Text"
                /\ parsed_xml.v.v[1].runs = AllRuns(Paras)

\* A shape of three paragraphs, of which only the last is list-like, gave a
\* List of three items.
C20_Witness ==
    /\ parsed_xml.called
    /\ Len(Paras) = 3
    /\ ~ListLike(Paras[1]) /\ ~ListLike(Paras[2]) /\ ListLike(Paras[3])
    /\ parsed_xml.v.ok
    /\ parsed_xml.v.v[1].kind = "List"
    /\ Len(parsed_xml.v.v[1].items) = 3
    /\ parsed_xml.v.v[1].items[1].runs # <<>>

\* ------------------------------------------------------------------ Calls specification

\* The children of a paragraph: runs (plain, ending in a newline, formatted,
\* without a text node), and nodes that are no runs of the drawing namespace
FormattedRun ==
    Elem(A_NAMESPACE, "r", NoAttrs,
         <<Elem(A_NAMESPACE, "rPr", [a \in {"b", "lang"} |-> IF a = "b" THEN <<"1">> ELSE "de-DE"], <<>>),
           Elem(A_NAMESPACE, "t", NoAttrs, <<TextNode(<<"c">>)>>)>>)
EmptyRun == Elem(A_NAMESPACE, "r", NoAttrs, <<Elem(A_NAMESPACE, "t", NoAttrs, <<>>)>>)
ParaChildPool ==
    {RunNode(<<"a">>), RunNode(<<"b", NL>>), FormattedRun, EmptyRun,
     PPr(NoAttrs, <<>>), Elem(A_NAMESPACE, "br", NoAttrs, <<>>),
     Elem("mc", "r", NoAttrs, <<Elem(A_NAMESPACE, "t", NoAttrs, <<TextNode(<<"z">>)>>)>>)}
ParagraphCalls ==
    {[fn |-> "parse_paragraph", p_node |-> Elem(A_NAMESPACE, "p", NoAttrs, kids), add_new_line |-> nl] :
        kids \in SeqsUpTo(ParaChildPool, MaxRuns), nl \in BOOLEAN}

\* The values of a lvl attribute and the children of a paragraph-properties
\* node
LvlValues ==
    {<<"0">>, <<"2">>, <<"0", "1">>, <<"+", "1">>, <<"-", "1">>, <<"x">>, <<>>,
     <<"4", "2", "9", "4", "9", "6", "7", "2", "9", "6">>}
BulletPool ==
    {<<>>,
     <<Elem(A_NAMESPACE, "buAutoNum", NoAttrs, <<>>)>>,
     <<Elem(A_NAMESPACE, "buChar", NoAttrs, <<>>)>>,
     <<Elem(A_NAMESPACE, "buNone", NoAttrs, <<>>)>>,
     <<Elem(A_NAMESPACE, "buFont", NoAttrs, <<>>), Elem(A_NAMESPACE, "buChar", NoAttrs, <<>>)>>,
     <<Elem(A_NAMESPACE, "buChar", NoAttrs, <<>>), Elem(A_NAMESPACE, "buAutoNum", NoAttrs, <<>>)>>,
     <<TextNode(<<NL>>), Elem(A_NAMESPACE, "buAutoNum", NoAttrs, <<>>)>>}
PPrPool ==
    {PPr(NoAttrs, kids) : kids \in BulletPool}
    \cup {PPr([a \in {"lvl"} |-> v], kids) : v \in LvlValues, kids \in BulletPool}
    \cup {PPr([a \in {"lvl", "algn"} |-> IF a = "lvl" THEN <<"1">> ELSE "ctr"], <<>>)}
PropsCalls ==
    {[fn |-> "parse_list_properties", p_node |-> Paragraph(<<>>, <<"a">>)],
     [fn |-> "parse_list_properties",
      p_node |-> Elem(A_NAMESPACE, "p", NoAttrs,
                      <<RunNode(<<"a">>),
                        Elem(P_NAMESPACE, "pPr", [a \in {"lvl"} |-> <<"2">>],
                             <<Elem(A_NAMESPACE, "buChar", NoAttrs, <<>>)>>)>>)]}
    \cup {[fn |-> "parse_list_properties", p_node |-> Paragraph(<<p_pr>>, <<"a">>)] :
             p_pr \in PPrPool}
    \cup {[fn |-> "parse_list_properties",
           p_node |-> Paragraph(<<PPr(NoAttrs, <<>>), p_pr>>, <<"a">>)] : p_pr \in PPrPool}

\* Slide paths and relationship targets
SlidePathPool ==
    {SlidePath, <<"slide", "1", ".xml">>, <<"a", "/", "slide", "1", ".xml">>}
TargetPool == {TargetPng, TargetJpeg} \cup SeqsUpTo({".", "/", "x"}, MaxTargetLen)
ImagePathCalls ==
    {[fn |-> "get_full_image_path", slide_path |-> sp, target |-> t] :
        sp \in SlidePathPool, t \in TargetPool}

InitCalls ==
    /\ call \in ParagraphCalls \cup PropsCalls \cup ImagePathCalls
    /\ ret = NotCalled
    /\ NoSlide
    /\ RunIdle
    /\ NoContainer
    /\ NoParse

\* parse_paragraph(&p_node, add_new_line)
ParseParagraph ==
    /\ call.fn = "parse_paragraph"
    /\ ~ret.called
    /\ ret' = Returned(parse_paragraph(call.p_node, call.add_new_line))
    /\ UNCHANGED call
    /\ UNCHANGED slideVars
    /\ UNCHANGED runVars
    /\ UNCHANGED parseVars
    /\ UNCHANGED containerVars

\* parse_list_properties(&p_node)
ParseListProperties ==
    /\ call.fn = "parse_list_properties"
    /\ ~ret.called
    /\ ret' = Returned(parse_list_properties(call.p_node))
    /\ UNCHANGED call
    /\ UNCHANGED slideVars
    /\ UNCHANGED runVars
    /\ UNCHANGED parseVars
    /\ UNCHANGED containerVars

\* PptxContainer::get_full_image_path(slide_path, target)
GetFullImagePath ==
    /\ call.fn = "get_full_image_path"
    /\ ~ret.called
    /\ ret' = Returned(get_full_image_path(call.slide_path, call.target))
    /\ UNCHANGED call
    /\ UNCHANGED slideVars
    /\ UNCHANGED runVars
    /\ UNCHANGED parseVars
    /\ UNCHANGED containerVars

NextCalls == ParseParagraph \/ ParseListProperties \/ GetFullImagePath

SpecCalls == InitCalls /\ [][NextCalls]_vars

\* ------------------------------------------------------------------ C21

\* The run children of the paragraph of the call
RunsOfCall ==
    SelectSeq(call.p_node.children,
              LAMBDA n : n.elem /\ n.tag = "r" /\ n.ns = A_NAMESPACE)

\* C21: parse_paragraph returns one Run per run child, in document order; the
\* text of the last run has one newline appended when add_new_line is set,
\* and every other text, and every text when it is not set, is the text of
\* its run; a paragraph without runs returns the empty sequence.
C21_NewlineOnLastRun ==
    (ret.called /\ call.fn = "parse_paragraph") =>
        /\ Len(ret.v) = Len(RunsOfCall)
        /\ \A k \in 1..Len(ret.v) :
              /\ ret.v[k].formatting = parse_run(RunsOfCall[k]).formatting
              /\ ret.v[k].text =
                     IF call.add_new_line /\ k = Len(RunsOfCall)
                     THEN parse_run(RunsOfCall[k]).text \o <<NL>>
                     ELSE parse_run(RunsOfCall[k]).text

\* A paragraph of three different runs, the first ending in a newline, was
\* parsed with add_new_line set.
C21_Witness ==
    /\ ret.called
    /\ call.fn = "parse_paragraph"
    /\ call.add_new_line
    /\ [k \in 1..Len(ret.v) |-> ret.v[k].text] = <<<<"b", NL>>, <<"c">>, <<"a", NL>>>>

\* ------------------------------------------------------------------ C22

\* The paragraph-properties children of the paragraph of the call
PPrsOfCall ==
    SelectSeq(call.p_node.children,
              LAMBDA n : n.elem /\ n.tag = "pPr" /\ n.ns = A_NAMESPACE)

\* The number a lvl attribute writes (0: none that fits a u32)
LevelOf(v) ==
    CASE v = <<"2">> -> 2
      [] v \in {<<"1">>, <<"0", "1">>, <<"+", "1">>} -> 1
      [] OTHER -> 0
HasBullet(p_pr) ==
    \E k \in 1..Len(p_pr.children) :
        /\ p_pr.children[k].elem
        /\ p_pr.children[k].ns = A_NAMESPACE
        /\ p_pr.children[k].tag \in {"buAutoNum", "buChar"}

\* C22: parse_list_properties returns the level the lvl attribute of the
\* paragraph-properties node writes, 0 when the node or the attribute is
\* missing or the value is not the text of a u32, and is_ordered exactly when
\* the node has a buAutoNum or a buChar child: a character bullet is
\* reported as ordered.
C22_LevelAndOrdered ==
    (ret.called /\ call.fn = "parse_list_properties") =>
        IF PPrsOfCall = <<>> THEN ret.v = [level |-> 0, is_ordered |-> FALSE]
        ELSE /\ ret.v.level =
                   IF "lvl" \in DOMAIN PPrsOfCall[1].attrs
                   THEN LevelOf(PPrsOfCall[1].attrs["lvl"]) ELSE 0
             /\ ret.v.is_ordered = HasBullet(PPrsOfCall[1])

\* A paragraph of level 2 whose only bullet is a character bullet was read
\* as ordered.
C22_Witness ==
    /\ ret.called
    /\ call.fn = "parse_list_properties"
    /\ call.p_node = Paragraph(<<PPr([a \in {"lvl"} |-> <<"2">>],
                                     <<Elem(A_NAMESPACE, "buChar", NoAttrs, <<>>)>>)>>, <<"a">>)
    /\ ret.v = [level |-> 2, is_ordered |-> TRUE]

\* ------------------------------------------------------------------ C23

\* The cSld elements of the part in the namespace ns, the spTree children of
\* the first of them, and the shapes a walk of the first of these visits
CSlds(ns) ==
    SelectSeq(descendants(part.root), LAMBDA n : n.elem /\ n.tag = "cSld" /\ n.ns = ns)
SpTrees(ns) ==
    IF CSlds(ns) = <<>> THEN <<>>
    ELSE SelectSeq(CSlds(ns)[1].children, LAMBDA n : n.elem /\ n.tag = "spTree" /\ n.ns = ns)
Walked(ns) == IF SpTrees(ns) = <<>> THEN <<>> ELSE Leaves(SpTrees(ns)[1].children)

\* An sp shape without a txBody child, and a pic shape without an embed id
BareSp(n) ==
    /\ n.ns = P_NAMESPACE /\ n.tag = "sp"
    /\ ~\E k \in 1..Len(n.children) :
           n.children[k].tag = "txBody" /\ n.children[k].ns = P_NAMESPACE
LoosePic(n) == IsPic(n) /\ ~HasEmbed(n)
NoneWalked(ns, Bad(_)) == \A k \in 1..Len(Walked(ns)) : ~Bad(Walked(ns)[k])

HeldTargets == {i \in ImageElements : slide0.elements[i].img.target # <<>>}
LastEntry(id) == CHOOSE k \in EntriesOf(id) : \A m \in EntriesOf(id) : m <= k

\* C24 as stated: an Image element that holds a target keeps it when the
\* slide is linked.
C24_KeepsHeldTarget ==
    linked >= 1 =>
        \A i \in HeldTargets : slide.elements[i].img.target = slide0.elements[i].img.target

\* C24, amended: link_images overwrites the target of an Image element that
\* already holds one as well: such an element has the target of the last
\* entry of slide.images with its id afterwards, and keeps its target only
\* when no entry has its id.
C24_OverwritesHeldTarget ==
    linked >= 1 =>
        \A i \in HeldTargets :
            slide.elements[i].img.target =
                IF EntriesOf(slide0.elements[i].img.id) = {}
                THEN slide0.elements[i].img.target
                ELSE slide.images[LastEntry(slide0.elements[i].img.id)].target

\* rId1 held pic.jpeg and was linked against images = [{rId1, ../media/image1.png}].
C24_Witness ==
    /\ linked >= 1
    /\ slide.images = <<ImageReference("rId1", TargetPng)>>
    /\ Len(slide.elements) >= 1
    /\ slide0.elements[1] = Image(ImageReference("rId1", TargetJpeg), DefaultPosition)
    /\ slide.elements[1] = Image(ImageReference("rId1", TargetPng), DefaultPosition)

\* ------------------------------------------------------------------ C25

\* The entries a step of the parallel phase has given a result
Started(m) == {k \in 1..Len(m.results) : m.results[k].called}

\* C25: from the end of the sequential phase to the return of the call, the
\* shared image table, the staged raw_data, the container and the archive
\* stay as they are, and a step of a worker gives a result to one entry and
\* changes no result given before; the result of an entry is what the
\* closure gives for it and the table the sequential phase built, whichever
\* workers ran before, and a list that is returned holds these results in
\* the order of raw_data.
C25_WorkersShareNothing ==
    /\ [][(mt.phase = "staged") =>
             /\ mt'.shared_image_data = mt.shared_image_data
             /\ mt'.raw_data = mt.raw_data
             /\ container' = container
             /\ archive' = archive
             /\ Started(mt) \subseteq Started(mt')
             /\ Cardinality(Started(mt') \ Started(mt)) <= 1
             /\ \A k \in Started(mt) : mt'.results[k] = mt.results[k]]_vars
    /\ [](mt.phase = "staged" =>
             /\ mt.shared_image_data = preload(container).v.all_image_data
             /\ \A k \in Started(mt) :
                   mt.results[k].v =
                       parse_task(mt.raw_data[k], preload(container).v.all_image_data,
                                  container.config))
    /\ []((mt_parsed.called /\ mt_parsed.v.ok) =>
             mt_parsed.v.v =
                 [k \in 1..Len(mt.raw_data) |->
                     parse_task(mt.raw_data[k], preload(container).v.all_image_data,
                                container.config).v])

\* Of two slides that use the same image, the worker of the second has
\* finished before the worker of the first has started.
C25_Witness ==
    /\ mt.phase = "staged"
    /\ Len(mt.raw_data) = 2
    /\ DOMAIN mt.shared_image_data # {}
    /\ mt.raw_data[1].images # <<>>
    /\ mt.raw_data[1].images = mt.raw_data[2].images
    /\ Started(mt) = {2}
    /\ mt.results[2].v.ok
    /\ DOMAIN mt.results[2].v.v.image_data # {}

\* ------------------------------------------------------------------ C26

ParentPrefix == <<".", ".", "/">>

\* What stands before the last "/" of a path
RECURSIVE DirOf(_)
DirOf(path) ==
    IF path = <<>> THEN <<>>
    ELSE IF path[Len(path)] = "/" THEN SubSeq(path, 1, Len(path) - 1)
    ELSE DirOf(SubSeq(path, 1, Len(path) - 1))

\* C26: a target that begins with "../" resolves to "ppt/" and the rest of
\* the target after that one prefix; any other target resolves to the
\* directory of the slide path, "/" and the target.
C26_ImagePath ==
    (ret.called /\ call.fn = "get_full_image_path") =>
        ret.v =
            IF Len(call.target) >= 3 /\ SubSeq(call.target, 1, 3) = ParentPrefix
            THEN <<"ppt", "/">> \o SubSeq(call.target, 4, Len(call.target))
            ELSE DirOf(call.slide_path) \o <<"/">> \o call.target

\* The target ../../x was resolved for ppt/slides/slide12.xml: the result is
\* ppt/x, without the second "../".
C26_Witness ==
    /\ ret.called
    /\ call.fn = "get_full_image_path"
    /\ call.slide_path = SlidePath
    /\ call.target = ParentPrefix \o ParentPrefix \o <<"x">>
    /\ ret.v = <<"ppt", "/", "x">>

\* ------------------------------------------------------------------ C27

BothParsed == parsed.called /\ parsed.v.ok /\ mt_parsed.called /\ mt_parsed.v.ok

\* C27: on an archive where parse_all and parse_all_multi_threaded both
\* succeed, they return the same slides in the same order: equal rel_path,
\* slide_number, elements, images and image_data.
C27_BatchesAgree == BothParsed => parsed.v.v = mt_parsed.v.v

\* Both calls succeeded on an archive of two slides in different directories
\* that name their image alike; the slides agree in all but the bytes of the
\* second slide's image.
C27_Witness ==
    /\ BothParsed
    /\ Len(parsed.v.v) = 2
    /\ Len(mt_parsed.v.v) = 2
    /\ parsed.v.v[1] = mt_parsed.v.v[1]
    /\ parsed.v.v[2].rel_path = NestedSlide
    /\ mt_parsed.v.v[2].rel_path = NestedSlide
    /\ parsed.v.v[2].elements = mt_parsed.v.v[2].elements
    /\ parsed.v.v[2].images = mt_parsed.v.v[2].images
    /\ DOMAIN parsed.v.v[2].image_data = {"rId1"}
    /\ DOMAIN mt_parsed.v.v[2].image_data = {"rId1"}
    /\ parsed.v.v[2].image_data["rId1"] = PngBytes
    /\ mt_parsed.v.v[2].image_data["rId1"] = JpegBytes

\* ------------------------------------------------------------------ C28

\* An element with its target blanked when it is an Image
Untargeted(e) == IF e.kind = "Image" THEN [e EXCEPT !.img.target = <<>>] ELSE e

\* C28: link_images changes nothing but the target of Image elements: the
\* elements are as many and in the same order, each with its variant, its
\* position and, for an Image, its id; elements of any other variant, and
\* images, image_data and every other field of the slide, are as before.
C28_OnlyTargetsChange ==
    linked >= 1 =>
        /\ Len(slide.elements) = Len(slide0.elements)
        /\ \A i \in 1..Len(slide0.elements) :
               /\ slide.elements[i].kind = slide0.elements[i].kind
               /\ Untargeted(slide.elements[i]) = Untargeted(slide0.elements[i])
        /\ [slide EXCEPT !.elements = <<>>] = [slide0 EXCEPT !.elements = <<>>]

\* A Text element, then an Image element without a target, linked against
\* the entry of its id: the Image has the target, its id and its position are
\* as before, and so are the Text element and slide.images.
C28_Witness ==
    /\ linked >= 1
    /\ Len(slide0.elements) = 2
    /\ slide0.elements[1].kind = "Text"
    /\ slide0.elements[2] = Image(ImageReference("rId1", NoTarget), DefaultPosition)
    /\ slide0.images = <<ImageReference("rId1", TargetPng)>>
    /\ slide.elements[1] = slide0.elements[1]
    /\ slide.elements[2] = Image(ImageReference("rId1", TargetPng), DefaultPosition)
    /\ slide.images = slide0.images

\* ------------------------------------------------------------------ C29

\* The line of item i when its level's counter has advanced on every item
RankedLine(i) ==
    [n \in 1..ListItems[i].level |-> "\t"]
    \o (IF ListItems[i].is_ordered THEN Dec(Rank(i)) \o <<".", " ">> ELSE <<"-", " ">>)
    \o extract_runs(ListItems[i].runs) \o <<NL>>

\* C29: in a rendered list the number of an ordered item is its rank among
\* all items of its level, ordered or not, since the most recent preceding
\* item of a shallower level; an unordered item shows "- " and is counted.
C29_CounterOnEveryItem ==
    (md.called /\ slide.elements[1].kind = "List") =>
        /\ md.v.some
        /\ md.v.v = concat([i \in 1..Len(ListItems) |-> RankedLine(i)])

\* Ordered, unordered, ordered at level 0 were rendered as 1., - and 3.
C29_Witness ==
    /\ md.called
    /\ slide.elements[1].kind = "List"
    /\ Len(ListItems) = 3
    /\ \A i \in 1..3 : ListItems[i].level = 0 /\ ListItems[i].is_ordered = (i # 2)
    /\ md.v.v = <<"1", ".", " ", "x", NL, NL, "-", " ", "x", NL, NL,
                  "3", ".", " ", "x", NL, NL>>

\* ------------------------------------------------------------------ C30

\* The text of the run without one trailing newline
Unterminated(t) == IF ends_with(t, NL) THEN Front(t) ELSE t

\* C30: a rendered run keeps its text: without formatting the result is the
\* text, token for token, and with any formatting what stands between the
\* opening and the closing markers is the text minus one trailing newline,
\* also when the text holds newlines before its end or ends with several.
C30_TextIntact ==
    run_md.called =>
        /\ (~run.formatting.bold /\ ~run.formatting.italic /\ ~run.formatting.underlined)
              => run_md.v = run.text
        /\ run_md.v = OpenMarks(run.formatting) \o Unterminated(run.text)
                      \o CloseMarks(run.formatting)
                      \o (IF ends_with(run.text, NL) THEN <<NL>> ELSE <<>>)

\* The text a, newline, newline without formatting was rendered as a, newline.
C30_Witness ==
    /\ run_md.called
    /\ run.formatting = Formatting(FALSE, FALSE, FALSE)
    /\ run.text = <<"a", NL, NL>>
    /\ run_md.v = <<"a", NL>>

====
